---------------------------- MODULE Spec2Model ----------------------------
(***************************************************************************)
(* Model of the graphdemo repository: the pydantic entity models under     *)
(* src/demo/models/ebb (field declarations, MINIMAL_FIELDS and             *)
(* to_minimal_dict) and the record-graph demo of src/demo/main.py          *)
(* (create_pydantic_objects, create_node_data, create_graph on a networkx  *)
(* DiGraph, serialize_graph).                                              *)
(*                                                                         *)
(* Python values are tagged records; a dict is a sequence of [k, v] pairs  *)
(* in insertion order, so that key order and list order of the serialized  *)
(* document are part of the state.                                         *)
(***************************************************************************)
EXTENDS Integers, Sequences, FiniteSets, TLC

\* ------------------------------------------------------------------ bounds
\* Largest value of the wall clock read by datetime.datetime.now.
MaxClock ==
  2
\* Evaluations of serialize_graph(create_graph()) in one behaviour.
MaxRuns ==
  2
\* Identifiers available to a free sequence of add_node / add_edge calls.
NumIds ==
  3
\* Length of a free sequence of add_node / add_edge calls.
MaxOps ==
  3
\* Keyword arguments left out of one constructor call.
MaxOmitted ==
  1
\* Index of the last sample value per field kind offered to a constructor.
MaxVariant ==
  1
MaxAssign ==
  1

\* ----------------------------------------------------------- python values
None ==
  [t |-> "none"]
Str(s) ==
  [t |-> "str", s |-> s]
Integer(i) ==
  [t |-> "int", i |-> i]
Bool(b) ==
  [t |-> "bool", b |-> b]
\* bytes: raw is the body of the bytes literal, so "\\xff" stands for the one
\* byte 0xff (which is not valid UTF-8).
Bytes(s) ==
  [t |-> "bytes", raw |-> s]
\* decimal.Decimal: sign, coefficient and number of fractional digits
\* (the exponent is -places).
Decimal(neg, coeff, places) ==
  [t |-> "decimal", neg |-> neg, coeff |-> coeff, places |-> places]
Date(y, m, d) ==
  [t |-> "date", y |-> y, m |-> m, d |-> d]
Datetime(y, m, d, H, M, S, us) ==
  [t |-> "datetime", y |-> y, m |-> m, d |-> d, H |-> H, M |-> M, S |-> S, us |-> us]
\* A member of a (str, Enum) class.
EnumMember(cls, value) ==
  [t |-> "enum", cls |-> cls, value |-> value]

\* dict helpers: a dict is a sequence of [k |-> key, v |-> value].
Keys(d) ==
  {d[i].k : i \in 1..Len(d)}
HasKey(d, key) ==
  \E i \in 1..Len(d) : d[i].k = key
Get(d, key) ==
  d[CHOOSE i \in 1..Len(d) : d[i].k = key].v
\* dict comprehension {k: v for k, v in d.items() if Keep(k)}
RECURSIVE Filter(_, _)
Filter(d, keep) ==
  IF d = <<>> THEN <<>>
  ELSE (IF Head(d).k \in keep THEN <<Head(d)>> ELSE <<>>) \o Filter(Tail(d), keep)

\* ------------------------------------------------------- text conversions
Digit(d) ==
  <<"0", "1", "2", "3", "4", "5", "6", "7", "8", "9">>[d + 1]
RECURSIVE IntStr(_)
IntStr(n) ==
  IF n < 10 THEN Digit(n) ELSE IntStr(n \div 10) \o Digit(n % 10)
\* format(n, "0<width>d")
RECURSIVE Pad(_, _)
Pad(n, width) ==
  IF width <= 1 THEN IntStr(n)
  ELSE IF n < 10 THEN "0" \o Pad(n, width - 1)
  ELSE Pad(n \div 10, width - 1) \o Digit(n % 10)
RECURSIVE Pow10(_)
Pow10(p) ==
  IF p = 0 THEN 1 ELSE 10 * Pow10(p - 1)
\* str(Decimal) for a non-positive exponent (no scientific notation arises
\* for at most six fractional digits).
DecimalStr(v) ==
  (IF v.neg THEN "-" ELSE "") \o
  (IF v.places = 0 THEN IntStr(v.coeff)
   ELSE IntStr(v.coeff \div Pow10(v.places)) \o "." \o Pad(v.coeff % Pow10(v.places), v.places))
\* date.isoformat()
DateIso(v) ==
  Pad(v.y, 4) \o "-" \o Pad(v.m, 2) \o "-" \o Pad(v.d, 2)
\* datetime.isoformat(sep): microseconds are printed only when non-zero.
DatetimeIso(v, sep) ==
  DateIso(v) \o sep \o Pad(v.H, 2) \o ":" \o Pad(v.M, 2) \o ":" \o Pad(v.S, 2) \o
  (IF v.us = 0 THEN "" ELSE "." \o Pad(v.us, 6))
\* str(v) for the values json.dumps hands to default=str: the types the
\* json module cannot encode itself.
PyStr(v) ==
  CASE v.t = "decimal" -> DecimalStr(v)
    [] v.t = "date" -> DateIso(v)
    [] v.t = "datetime" -> DatetimeIso(v, " ")
    [] v.t = "bytes" -> "b'" \o v.raw \o "'"

\* ------------------------------------------------ field declarations
\* pydantic Field(...): a required field (Ellipsis default) and a field whose
\* default is produced by default_factory=datetime.datetime.now.
Required ==
  [t |-> "required"]
NowFactory ==
  [t |-> "default_factory"]
\* One annotated attribute of a BaseModel: name, kind of its annotation
\* (Optional[...] gives nullable), default, and the constraints of Field().
Field(n, k, nullable, dflt, c) ==
  [n |-> n, k |-> k, nullable |-> nullable, dflt |-> dflt, c |-> c]

\* AdjustAction: src/src/demo/models/ebb/adjust_action.py
AdjustAction ==
  [name |-> "AdjustAction", table |-> "adjust_action",
   fields |-> <<
     Field("id", "int", FALSE, Required, [gt |-> 0]),
     Field("uuid", "str", FALSE, Required, [max_length |-> 26]),
     Field("billing_entity_uuid", "str", FALSE, Required, [max_length |-> 26]),
     Field("settlement_uuid", "str", FALSE, Required, [max_length |-> 26]),
     Field("developer_uuid", "str", TRUE, None, [max_length |-> 13]),
     Field("developer_app_uuid", "str", TRUE, None, [max_length |-> 13]),
     Field("adjust_reason", "str", FALSE, Required, [max_length |-> 20]),
     Field("adjust_action_type", "str", FALSE, Required, [max_length |-> 25]),
     Field("fee_category", "str", FALSE, Required, [max_length |-> 25]),
     Field("fee_code", "str", FALSE, Required, [max_length |-> 25]),
     Field("action_datetime", "datetime", FALSE, Required, [any |-> TRUE]),
     Field("num_units", "int", FALSE, Integer(0), [any |-> TRUE]),
     Field("units_in_period", "int", FALSE, Required, [ge |-> 0]),
     Field("basis_amount", "decimal", FALSE, Decimal(FALSE, 0, 3), [max_digits |-> 12, decimal_places |-> 3]),
     Field("basis_currency", "str", TRUE, None, [max_length |-> 3]),
     Field("reference", "str", TRUE, None, [max_length |-> 50]),
     Field("adjust_action_fee_code_uuid", "str", TRUE, None, [max_length |-> 26]),
     Field("fee_uuid", "str", TRUE, None, [max_length |-> 26]),
     Field("event_uuid", "str", TRUE, None, [max_length |-> 26]),
     Field("request_uuid", "str", TRUE, None, [max_length |-> 26]),
     Field("date_to_post", "date", TRUE, None, [any |-> TRUE]),
     Field("posting_date", "date", TRUE, None, [any |-> TRUE]),
     Field("created_timestamp", "datetime", FALSE, NowFactory, [any |-> TRUE]),
     Field("modified_timestamp", "datetime", FALSE, NowFactory, [any |-> TRUE]) >>,
   MINIMAL_FIELDS |-> {"adjust_reason", "adjust_action_type", "fee_category", "fee_code", "num_units", "units_in_period"},
   to_minimal_dict |-> "python",
   example |-> <<
       [k |-> "id", v |-> Integer(1)],
       [k |-> "uuid", v |-> Str("01H8X7Y7Z7QWERTYUIOPASDFGH")],
       [k |-> "billing_entity_uuid", v |-> Str("01H8X7Y7Z7QWERTYUIOPASDFGZ")],
       [k |-> "settlement_uuid", v |-> Str("01H8X7Y7Z7QWERTYUIOPASDFGX")],
       [k |-> "developer_uuid", v |-> Str("01H8X7Y7Z7QWE")],
       [k |-> "developer_app_uuid", v |-> Str("01H8X7Y7Z7QWR")],
       [k |-> "adjust_reason", v |-> Str("REFUND")],
       [k |-> "adjust_action_type", v |-> Str("CREDIT_ADJUSTMENT")],
       [k |-> "fee_category", v |-> Str("RECURRING")],
       [k |-> "fee_code", v |-> Str("MONTHLY_FEE")],
       [k |-> "action_datetime", v |-> Str("2023-10-27T10:00:00.123456")],
       [k |-> "num_units", v |-> Integer(1)],
       [k |-> "units_in_period", v |-> Integer(1)],
       [k |-> "basis_amount", v |-> Str("99.990")],
       [k |-> "basis_currency", v |-> Str("USD")],
       [k |-> "reference", v |-> Str("Customer Refund Request")],
       [k |-> "adjust_action_fee_code_uuid", v |-> Str("01H8X7Y7Z7QWERTYUIOPASDFGA")],
       [k |-> "fee_uuid", v |-> Str("01H8X7Y7Z7QWERTYUIOPASDFGB")],
       [k |-> "event_uuid", v |-> Str("01H8X7Y7Z7QWERTYUIOPASDFGC")],
       [k |-> "request_uuid", v |-> Str("01H8X7Y7Z7QWERTYUIOPASDFGD")],
       [k |-> "date_to_post", v |-> Str("2023-11-01")],
       [k |-> "posting_date", v |-> Str("2023-11-01")],
       [k |-> "created_timestamp", v |-> Str("2023-10-27T10:00:00.123456")],
       [k |-> "modified_timestamp", v |-> Str("2023-10-27T10:00:00.123456")] >>,
   main |-> <<"----begin example: adjust-action----", "----begin minmal example: adjust-action----", "----end: adjust-action----">>]

\* AdjustActionType: src/src/demo/models/ebb/adjust_action_type.py
AdjustActionType ==
  [name |-> "AdjustActionType", table |-> "adjust_action_type",
   fields |-> <<
     Field("id", "int", FALSE, Required, [gt |-> 0]),
     Field("uuid", "str", FALSE, Required, [max_length |-> 26]),
     Field("adjust_action_type", "str", FALSE, Required, [max_length |-> 25]),
     Field("fee_category_group", "str", FALSE, Required, [max_length |-> 25]),
     Field("revenue_group", "str", TRUE, None, [max_length |-> 25]),
     Field("created_timestamp", "datetime", FALSE, NowFactory, [any |-> TRUE]),
     Field("modified_timestamp", "datetime", FALSE, NowFactory, [any |-> TRUE]) >>,
   MINIMAL_FIELDS |-> {"adjust_action_type", "fee_category_group", "revenue_group"},
   to_minimal_dict |-> "json",
   example |-> <<
       [k |-> "id", v |-> Integer(1)],
       [k |-> "uuid", v |-> Str("01H8X7Y7Z7QWERTYUIOPASDFGH")],
       [k |-> "adjust_action_type", v |-> Str("CREDIT_ADJUSTMENT")],
       [k |-> "fee_category_group", v |-> Str("RECURRING_FEES")],
       [k |-> "revenue_group", v |-> Str("SUBSCRIPTION_REVENUE")],
       [k |-> "created_timestamp", v |-> Str("2023-10-27T10:00:00.123456")],
       [k |-> "modified_timestamp", v |-> Str("2023-10-27T10:00:00.123456")] >>,
   main |-> <<"----begin example: adjust-action-type----", "----begin minmal example: adjust-action-type----", "----end: adjust-action-type----">>]

\* AdjustReason: src/src/demo/models/ebb/adjust_reason.py
AdjustReason ==
  [name |-> "AdjustReason", table |-> "adjust_reason",
   fields |-> <<
     Field("id", "int", FALSE, Required, [gt |-> 0]),
     Field("uuid", "str", FALSE, Required, [max_length |-> 26]),
     Field("adjust_reason", "str", FALSE, Required, [max_length |-> 25]),
     Field("created_timestamp", "datetime", FALSE, NowFactory, [any |-> TRUE]) >>,
   MINIMAL_FIELDS |-> {"adjust_reason"},
   to_minimal_dict |-> "json",
   example |-> <<
       [k |-> "id", v |-> Integer(1)],
       [k |-> "uuid", v |-> Str("01H8X7Y7Z7QWERTYUIOPASDFGH")],
       [k |-> "adjust_reason", v |-> Str("REFUND")],
       [k |-> "created_timestamp", v |-> Str("2023-10-27T10:00:00.123456")] >>,
   main |-> <<"----begin example: adjust-reason----", "----begin minmal example: adjust-reason----", "----end: adjust-reason----">>]

\* AppMeterAction: src/src/demo/models/ebb/app_meter_action.py
AppMeterAction ==
  [name |-> "AppMeterAction", table |-> "app_meter_action",
   fields |-> <<
     Field("id", "int", FALSE, Required, [gt |-> 0]),
     Field("uuid", "str", FALSE, Required, [max_length |-> 26]),
     Field("billing_entity_uuid", "str", FALSE, Required, [max_length |-> 26]),
     Field("developer_app_uuid", "str", FALSE, Required, [max_length |-> 13]),
     Field("app_metered_uuid", "str", FALSE, Required, [max_length |-> 13]),
     Field("app_meter_action_type", "str", FALSE, Required, [max_length |-> 25]),
     Field("fee_category", "str", FALSE, Required, [max_length |-> 25]),
     Field("fee_code", "str", FALSE, Required, [max_length |-> 25]),
     Field("action_datetime", "datetime", FALSE, Required, [any |-> TRUE]),
     Field("merchant_plan_uuid", "str", TRUE, None, [max_length |-> 13]),
     Field("num_units", "int", FALSE, Integer(0), [any |-> TRUE]),
     Field("units_in_period", "int", FALSE, Required, [ge |-> 0]),
     Field("basis_amount", "decimal", FALSE, Decimal(FALSE, 0, 3), [max_digits |-> 12, decimal_places |-> 3]),
     Field("basis_currency", "str", TRUE, None, [max_length |-> 3]),
     Field("reference", "str", TRUE, None, [max_length |-> 50]),
     Field("app_meter_action_fee_code_uuid", "str", TRUE, None, [max_length |-> 26]),
     Field("fee_uuid", "str", TRUE, None, [max_length |-> 26]),
     Field("event_uuid", "str", TRUE, None, [max_length |-> 26]),
     Field("request_uuid", "str", TRUE, None, [max_length |-> 26]),
     Field("date_to_post", "date", TRUE, None, [any |-> TRUE]),
     Field("posting_date", "date", TRUE, None, [any |-> TRUE]),
     Field("created_timestamp", "datetime", FALSE, NowFactory, [any |-> TRUE]),
     Field("modified_timestamp", "datetime", FALSE, NowFactory, [any |-> TRUE]) >>,
   MINIMAL_FIELDS |-> {"app_meter_action_type", "fee_category", "fee_code", "num_units", "units_in_period", "basis_amount", "basis_currency"},
   to_minimal_dict |-> "json",
   example |-> <<
       [k |-> "id", v |-> Integer(1)],
       [k |-> "uuid", v |-> Str("01H8X7Y7Z7QWERTYUIOPASDFGH")],
       [k |-> "billing_entity_uuid", v |-> Str("01H8X7Y7Z7QWERTYUIOPASDFGZ")],
       [k |-> "developer_app_uuid", v |-> Str("01H8X7Y7Z7QWE")],
       [k |-> "app_metered_uuid", v |-> Str("01H8X7Y7Z7QWR")],
       [k |-> "app_meter_action_type", v |-> Str("USAGE_BILLING")],
       [k |-> "fee_category", v |-> Str("METERED")],
       [k |-> "fee_code", v |-> Str("API_CALLS")],
       [k |-> "action_datetime", v |-> Str("2023-10-27T10:00:00.123456")],
       [k |-> "merchant_plan_uuid", v |-> Str("01H8X7Y7Z7QWT")],
       [k |-> "num_units", v |-> Integer(1000)],
       [k |-> "units_in_period", v |-> Integer(5000)],
       [k |-> "basis_amount", v |-> Str("0.050")],
       [k |-> "basis_currency", v |-> Str("USD")],
       [k |-> "reference", v |-> Str("API Usage Billing")],
       [k |-> "app_meter_action_fee_code_uuid", v |-> Str("01H8X7Y7Z7QWERTYUIOPASDFGA")],
       [k |-> "fee_uuid", v |-> Str("01H8X7Y7Z7QWERTYUIOPASDFGB")],
       [k |-> "event_uuid", v |-> Str("01H8X7Y7Z7QWERTYUIOPASDFGC")],
       [k |-> "request_uuid", v |-> Str("01H8X7Y7Z7QWERTYUIOPASDFGD")],
       [k |-> "date_to_post", v |-> Str("2023-11-01")],
       [k |-> "posting_date", v |-> Str("2023-11-01")],
       [k |-> "created_timestamp", v |-> Str("2023-10-27T10:00:00.123456")],
       [k |-> "modified_timestamp", v |-> Str("2023-10-27T10:00:00.123456")] >>,
   main |-> <<"----begin example: app-meter-action----", "----begin minmal example: app-meter-action----", "----end: app-meter-action----">>]

\* AppMeterActionFeeCode: src/src/demo/models/ebb/app_meter_action_fee_code.py
AppMeterActionFeeCode ==
  [name |-> "AppMeterActionFeeCode", table |-> "app_meter_action_fee_code",
   fields |-> <<
     Field("id", "int", FALSE, Required, [gt |-> 0]),
     Field("uuid", "str", FALSE, Required, [max_length |-> 26]),
     Field("developer_app_uuid", "str", FALSE, Required, [max_length |-> 13]),
     Field("app_metered_uuid", "str", FALSE, Required, [max_length |-> 13]),
     Field("merchant_plan_uuid", "str", TRUE, None, [max_length |-> 13]),
     Field("app_meter_action_type", "str", FALSE, Required, [max_length |-> 25]),
     Field("effective_date", "date", FALSE, Required, [any |-> TRUE]),
     Field("fee_category", "str", FALSE, Required, [max_length |-> 25]),
     Field("fee_code", "str", FALSE, Required, [max_length |-> 25]),
     Field("deleted_date", "date", TRUE, None, [any |-> TRUE]),
     Field("created_timestamp", "datetime", FALSE, NowFactory, [any |-> TRUE]),
     Field("modified_timestamp", "datetime", FALSE, NowFactory, [any |-> TRUE]),
     Field("audit_id", "str", TRUE, None, [max_length |-> 26]) >>,
   MINIMAL_FIELDS |-> {"app_meter_action_type", "effective_date", "fee_category", "fee_code"},
   to_minimal_dict |-> "json",
   example |-> <<
       [k |-> "id", v |-> Integer(1)],
       [k |-> "uuid", v |-> Str("01H8X7Y7Z7QWERTYUIOPASDFGH")],
       [k |-> "developer_app_uuid", v |-> Str("01H8X7Y7Z7QWE")],
       [k |-> "app_metered_uuid", v |-> Str("01H8X7Y7Z7QWR")],
       [k |-> "merchant_plan_uuid", v |-> Str("01H8X7Y7Z7QWT")],
       [k |-> "app_meter_action_type", v |-> Str("USAGE_BILLING")],
       [k |-> "effective_date", v |-> Str("2023-10-01")],
       [k |-> "fee_category", v |-> Str("METERED")],
       [k |-> "fee_code", v |-> Str("API_CALLS")],
       [k |-> "deleted_date", v |-> None],
       [k |-> "created_timestamp", v |-> Str("2023-10-27T10:00:00.123456")],
       [k |-> "modified_timestamp", v |-> Str("2023-10-27T10:00:00.123456")],
       [k |-> "audit_id", v |-> Str("01H8X7Y7Z7QWERTYUIOPASDFGA")] >>,
   main |-> <<"----begin example: app-meter-action-fee-code----", "----begin minmal example: app-meter-action-fee-code----", "----end: app-meter-action-fee-code----">>]

\* AppMeterActionType: src/src/demo/models/ebb/app_meter_action_type.py
AppMeterActionType ==
  [name |-> "AppMeterActionType", table |-> "app_meter_action_type",
   fields |-> <<
     Field("id", "int", FALSE, Required, [gt |-> 0]),
     Field("uuid", "str", FALSE, Required, [max_length |-> 26]),
     Field("app_meter_action_type", "str", FALSE, Required, [max_length |-> 25]),
     Field("created_timestamp", "datetime", FALSE, NowFactory, [any |-> TRUE]) >>,
   MINIMAL_FIELDS |-> {"app_meter_action_type"},
   to_minimal_dict |-> "json",
   example |-> <<
       [k |-> "id", v |-> Integer(1)],
       [k |-> "uuid", v |-> Str("01H8X7Y7Z7QWERTYUIOPASDFGH")],
       [k |-> "app_meter_action_type", v |-> Str("USAGE_BILLING")],
       [k |-> "created_timestamp", v |-> Str("2023-10-27T10:00:00.123456")] >>,
   main |-> <<"----begin example: app-meter-action-type----", "----begin minmal example: app-meter-action-type----", "----end: app-meter-action-type----">>]

\* AppSubActionError: src/src/demo/models/ebb/app_sub_action_error.py
AppSubActionError ==
  [name |-> "AppSubActionError", table |-> "app_sub_action_error",
   fields |-> <<
     Field("id", "int", FALSE, Required, [gt |-> 0]),
     Field("uuid", "str", FALSE, Required, [max_length |-> 26]),
     Field("app_sub_action_uuid", "str", FALSE, Required, [max_length |-> 26]),
     Field("request_uuid", "str", FALSE, Required, [max_length |-> 26]),
     Field("posting_date", "date", FALSE, Required, [any |-> TRUE]),
     Field("original_request_uuid", "str", FALSE, Required, [max_length |-> 26]),
     Field("original_posting_date", "date", FALSE, Required, [any |-> TRUE]),
     Field("posting_attempts", "int", TRUE, Integer(1), [any |-> TRUE]),
     Field("error_code", "str", FALSE, Required, [max_length |-> 25]),
     Field("error_details", "str", TRUE, None, [any |-> TRUE]),
     Field("resolved", "int", TRUE, Integer(0), [any |-> TRUE]),
     Field("created_timestamp", "datetime", FALSE, NowFactory, [any |-> TRUE]),
     Field("modified_timestamp", "datetime", FALSE, NowFactory, [any |-> TRUE]) >>,
   MINIMAL_FIELDS |-> {"posting_attempts", "error_code", "resolved"},
   to_minimal_dict |-> "json",
   example |-> <<
       [k |-> "id", v |-> Integer(1)],
       [k |-> "uuid", v |-> Str("01H8X7Y7Z7QWERTYUIOPASDFGH")],
       [k |-> "app_sub_action_uuid", v |-> Str("01H8X7Y7Z7QWERTYUIOPASDFGZ")],
       [k |-> "request_uuid", v |-> Str("01H8X7Y7Z7QWERTYUIOPASDFGX")],
       [k |-> "posting_date", v |-> Str("2023-11-01")],
       [k |-> "original_request_uuid", v |-> Str("01H8X7Y7Z7QWERTYUIOPASDFGW")],
       [k |-> "original_posting_date", v |-> Str("2023-10-31")],
       [k |-> "posting_attempts", v |-> Integer(2)],
       [k |-> "error_code", v |-> Str("SUBSCRIPTION_ERROR")],
       [k |-> "error_details", v |-> Str("Unable to process subscription billing due to expired payment method")],
       [k |-> "resolved", v |-> Integer(0)],
       [k |-> "created_timestamp", v |-> Str("2023-10-27T10:00:00.123456")],
       [k |-> "modified_timestamp", v |-> Str("2023-10-27T10:00:00.123456")] >>,
   main |-> <<"----begin example: app-sub-action-error----", "----begin minmal example: app-sub-action-error----", "----end: app-sub-action-error----">>]

\* AutoAdjustAdvice: src/src/demo/models/ebb/auto_adjust_advice.py
AutoAdjustAdvice ==
  [name |-> "AutoAdjustAdvice", table |-> "auto_adjust_advice",
   fields |-> <<
     Field("id", "int", FALSE, Required, [gt |-> 0]),
     Field("uuid", "str", FALSE, Required, [max_length |-> 26]),
     Field("billing_entity_uuid", "str", FALSE, Required, [max_length |-> 26]),
     Field("auto_adjust_rule_uuid", "str", FALSE, Required, [max_length |-> 26]),
     Field("start_date", "date", FALSE, Required, [any |-> TRUE]),
     Field("deleted_date", "date", TRUE, None, [any |-> TRUE]),
     Field("total_periods", "int", FALSE, Required, [any |-> TRUE]),
     Field("evaluated_periods", "int", FALSE, Integer(0), [any |-> TRUE]),
     Field("applied_periods", "int", FALSE, Integer(0), [any |-> TRUE]),
     Field("max_units", "decimal", TRUE, None, [max_digits |-> 12, decimal_places |-> 4]),
     Field("max_amount", "decimal", TRUE, None, [max_digits |-> 12, decimal_places |-> 3]),
     Field("currency", "str", TRUE, None, [max_length |-> 3]),
     Field("reference", "str", TRUE, None, [max_length |-> 50]),
     Field("request_uuid", "str", TRUE, None, [max_length |-> 26]),
     Field("created_timestamp", "datetime", FALSE, NowFactory, [any |-> TRUE]),
     Field("modified_timestamp", "datetime", FALSE, NowFactory, [any |-> TRUE]),
     Field("audit_id", "str", TRUE, None, [max_length |-> 26]) >>,
   MINIMAL_FIELDS |-> {"total_periods", "evaluated_periods", "applied_periods", "max_units", "max_amount", "currency"},
   to_minimal_dict |-> "json",
   example |-> <<
       [k |-> "id", v |-> Integer(1)],
       [k |-> "uuid", v |-> Str("01H8X7Y7Z7QWERTYUIOPASDFGH")],
       [k |-> "billing_entity_uuid", v |-> Str("01H8X7Y7Z7QWERTYUIOPASDFGZ")],
       [k |-> "auto_adjust_rule_uuid", v |-> Str("01H8X7Y7Z7QWERTYUIOPASDFGX")],
       [k |-> "start_date", v |-> Str("2023-10-01")],
       [k |-> "deleted_date", v |-> None],
       [k |-> "total_periods", v |-> Integer(12)],
       [k |-> "evaluated_periods", v |-> Integer(3)],
       [k |-> "applied_periods", v |-> Integer(2)],
       [k |-> "max_units", v |-> Str("1000.0000")],
       [k |-> "max_amount", v |-> Str("500.000")],
       [k |-> "currency", v |-> Str("USD")],
       [k |-> "reference", v |-> Str("Annual Volume Discount")],
       [k |-> "request_uuid", v |-> Str("01H8X7Y7Z7QWERTYUIOPASDFGD")],
       [k |-> "created_timestamp", v |-> Str("2023-10-27T10:00:00.123456")],
       [k |-> "modified_timestamp", v |-> Str("2023-10-27T10:00:00.123456")],
       [k |-> "audit_id", v |-> Str("01H8X7Y7Z7QWERTYUIOPASDFGA")] >>,
   main |-> <<"----begin example: auto-adjust-advice----", "----begin minmal example: auto-adjust-advice----", "----end: auto-adjust-advice----">>]

\* AutoAdjustQualifier: src/src/demo/models/ebb/auto_adjust_qualifier.py
AutoAdjustQualifier ==
  [name |-> "AutoAdjustQualifier", table |-> "auto_adjust_qualifier",
   fields |-> <<
     Field("id", "int", FALSE, Required, [gt |-> 0]),
     Field("uuid", "str", FALSE, Required, [max_length |-> 26]),
     Field("auto_adjust_rule_uuid", "str", FALSE, Required, [max_length |-> 26]),
     Field("fee_category", "str", FALSE, Required, [max_length |-> 25]),
     Field("fee_code", "str", FALSE, Required, [max_length |-> 25]),
     Field("negate_fee_summary", "int", FALSE, Integer(0), [any |-> TRUE]),
     Field("disqualify", "int", FALSE, Integer(0), [any |-> TRUE]),
     Field("created_timestamp", "datetime", FALSE, NowFactory, [any |-> TRUE]),
     Field("audit_id", "str", TRUE, None, [max_length |-> 26]) >>,
   MINIMAL_FIELDS |-> {"fee_category", "fee_code", "negate_fee_summary", "disqualify"},
   to_minimal_dict |-> "json",
   example |-> <<
       [k |-> "id", v |-> Integer(1)],
       [k |-> "uuid", v |-> Str("01H8X7Y7Z7QWERTYUIOPASDFGH")],
       [k |-> "auto_adjust_rule_uuid", v |-> Str("01H8X7Y7Z7QWERTYUIOPASDFGX")],
       [k |-> "fee_category", v |-> Str("RECURRING")],
       [k |-> "fee_code", v |-> Str("MONTHLY_FEE")],
       [k |-> "negate_fee_summary", v |-> Integer(0)],
       [k |-> "disqualify", v |-> Integer(0)],
       [k |-> "created_timestamp", v |-> Str("2023-10-27T10:00:00.123456")],
       [k |-> "audit_id", v |-> Str("01H8X7Y7Z7QWERTYUIOPASDFGA")] >>,
   main |-> <<"----begin example: auto-adjust-qualifier----", "----begin minmal example: auto-adjust-qualifier----", "----end: auto-adjust-qualifier----">>]

\* AutoAdjustRule: src/src/demo/models/ebb/auto_adjust_rule.py
AutoAdjustRule ==
  [name |-> "AutoAdjustRule", table |-> "auto_adjust_rule",
   fields |-> <<
     Field("id", "int", FALSE, Required, [gt |-> 0]),
     Field("uuid", "str", FALSE, Required, [max_length |-> 26]),
     Field("rule_status", "enum", FALSE, EnumMember("RuleStatus", "SETUP"), [cls |-> "RuleStatus", vals |-> {"SETUP", "ACTIVE", "DEPRECATED", "DELETED"}]),
     Field("rule_alias", "str", TRUE, None, [max_length |-> 25]),
     Field("rate_fee_category", "str", FALSE, Required, [max_length |-> 25]),
     Field("rate_fee_code", "str", FALSE, Required, [max_length |-> 25]),
     Field("target_entity_type", "enum", FALSE, Required, [cls |-> "TargetEntityType", vals |-> {"MERCHANT", "RESELLER", "DEVELOPER"}]),
     Field("short_desc", "str", FALSE, Required, [max_length |-> 40]),
     Field("full_desc", "str", TRUE, None, [max_length |-> 255]),
     Field("created_timestamp", "datetime", FALSE, NowFactory, [any |-> TRUE]),
     Field("modified_timestamp", "datetime", FALSE, NowFactory, [any |-> TRUE]),
     Field("audit_id", "str", TRUE, None, [max_length |-> 26]) >>,
   MINIMAL_FIELDS |-> {"rule_status", "rate_fee_category", "rate_fee_code", "target_entity_type", "short_desc"},
   to_minimal_dict |-> "json",
   example |-> <<
       [k |-> "id", v |-> Integer(1)],
       [k |-> "uuid", v |-> Str("01H8X7Y7Z7QWERTYUIOPASDFGH")],
       [k |-> "rule_status", v |-> Str("ACTIVE")],
       [k |-> "rule_alias", v |-> Str("VOLUME_DISCOUNT")],
       [k |-> "rate_fee_category", v |-> Str("RECURRING")],
       [k |-> "rate_fee_code", v |-> Str("MONTHLY_FEE")],
       [k |-> "target_entity_type", v |-> Str("MERCHANT")],
       [k |-> "short_desc", v |-> Str("Volume-based discount rule")],
       [k |-> "full_desc", v |-> Str("Provides automatic adjustments based on monthly transaction volume thresholds")],
       [k |-> "created_timestamp", v |-> Str("2023-10-27T10:00:00.123456")],
       [k |-> "modified_timestamp", v |-> Str("2023-10-27T10:00:00.123456")],
       [k |-> "audit_id", v |-> Str("01H8X7Y7Z7QWERTYUIOPASDFGA")] >>,
   main |-> <<"----begin example: auto-adjust-rule----", "----begin minmal example: auto-adjust-rule----", "----end: auto-adjust-rule----">>]

\* BillingArchetype: src/src/demo/models/ebb/billing_archetype.py
BillingArchetype ==
  [name |-> "BillingArchetype", table |-> "billing_archetype",
   fields |-> <<
     Field("id", "int", FALSE, Required, [gt |-> 0]),
     Field("uuid", "str", FALSE, Required, [max_length |-> 13]),
     Field("archetype_type", "enum", FALSE, Required, [cls |-> "ArchetypeType", vals |-> {"MERCHANT", "RESELLER", "DEVELOPER", "PSEUDO"}]),
     Field("created_timestamp", "datetime", FALSE, NowFactory, [any |-> TRUE]) >>,
   MINIMAL_FIELDS |-> {"archetype_type"},
   to_minimal_dict |-> "json",
   example |-> <<
       [k |-> "id", v |-> Integer(1)],
       [k |-> "uuid", v |-> Str("01H8X7Y7Z7QWE")],
       [k |-> "archetype_type", v |-> Str("MERCHANT")],
       [k |-> "created_timestamp", v |-> Str("2023-10-27T10:00:00.123456")] >>,
   main |-> <<"----begin example: billing-archetype----", "----begin minmal example: billing-archetype----", "----end: billing-archetype----">>]

\* BillingEntity: src/src/demo/models/ebb/billing_entity.py
BillingEntity ==
  [name |-> "BillingEntity", table |-> "billing_entity",
   fields |-> <<
     Field("id", "int", FALSE, Required, [gt |-> 0]),
     Field("uuid", "str", FALSE, Required, [max_length |-> 26]),
     Field("entity_uuid", "str", FALSE, Required, [max_length |-> 13]),
     Field("entity_type", "enum", FALSE, Required, [cls |-> "EntityType", vals |-> {"MERCHANT", "RESELLER", "DEVELOPER", "PSEUDO", "ARCHETYPE"}]),
     Field("name", "str", TRUE, None, [max_length |-> 127]),
     Field("created_timestamp", "datetime", FALSE, NowFactory, [any |-> TRUE]),
     Field("modified_timestamp", "datetime", FALSE, NowFactory, [any |-> TRUE]) >>,
   MINIMAL_FIELDS |-> {"entity_type", "name"},
   to_minimal_dict |-> "json",
   example |-> <<
       [k |-> "id", v |-> Integer(1)],
       [k |-> "uuid", v |-> Str("01H8X7Y7Z7QWERTYUIOPASDFGH")],
       [k |-> "entity_uuid", v |-> Str("01H8X7Y7Z7QWE")],
       [k |-> "entity_type", v |-> Str("MERCHANT")],
       [k |-> "name", v |-> Str("Acme Corporation")],
       [k |-> "created_timestamp", v |-> Str("2023-10-27T10:00:00.123456")],
       [k |-> "modified_timestamp", v |-> Str("2023-10-27T10:00:00.123456")] >>,
   main |-> <<"----begin example: billing-entity----", "----begin minmal example: billing-entity----", "----end: billing-entity----">>]

\* BillingEntityConfig: src/src/demo/models/ebb/billing_entity_config.py
BillingEntityConfig ==
  [name |-> "BillingEntityConfig", table |-> "billing_entity_config",
   fields |-> <<
     Field("id", "int", FALSE, Required, [gt |-> 0]),
     Field("uuid", "str", FALSE, Required, [max_length |-> 26]),
     Field("billing_entity_uuid", "str", FALSE, Required, [max_length |-> 26]),
     Field("hierarchy_type", "str", FALSE, Required, [max_length |-> 20]),
     Field("effective_date", "date", FALSE, Required, [any |-> TRUE]),
     Field("post_method", "str", TRUE, None, [max_length |-> 20]),
     Field("plan_billing_method", "str", TRUE, None, [max_length |-> 20]),
     Field("invoice_method", "str", TRUE, None, [max_length |-> 20]),
     Field("settlement_method", "str", TRUE, None, [max_length |-> 20]),
     Field("seasonal_rule_set_uuid", "str", TRUE, None, [max_length |-> 26]),
     Field("created_timestamp", "datetime", FALSE, NowFactory, [any |-> TRUE]),
     Field("modified_timestamp", "datetime", FALSE, NowFactory, [any |-> TRUE]),
     Field("audit_id", "str", TRUE, None, [max_length |-> 26]) >>,
   MINIMAL_FIELDS |-> {"hierarchy_type", "effective_date", "post_method", "plan_billing_method", "invoice_method", "settlement_method"},
   to_minimal_dict |-> "json",
   example |-> <<
       [k |-> "id", v |-> Integer(1)],
       [k |-> "uuid", v |-> Str("01H8X7Y7Z7QWERTYUIOPASDFGH")],
       [k |-> "billing_entity_uuid", v |-> Str("01H8X7Y7Z7QWERTYUIOPASDFGZ")],
       [k |-> "hierarchy_type", v |-> Str("STANDARD")],
       [k |-> "effective_date", v |-> Str("2023-10-01")],
       [k |-> "post_method", v |-> Str("AUTOMATIC")],
       [k |-> "plan_billing_method", v |-> Str("MONTHLY")],
       [k |-> "invoice_method", v |-> Str("EMAIL")],
       [k |-> "settlement_method", v |-> Str("NET30")],
       [k |-> "seasonal_rule_set_uuid", v |-> Str("01H8X7Y7Z7QWERTYUIOPASDFGX")],
       [k |-> "created_timestamp", v |-> Str("2023-10-27T10:00:00.123456")],
       [k |-> "modified_timestamp", v |-> Str("2023-10-27T10:00:00.123456")],
       [k |-> "audit_id", v |-> Str("01H8X7Y7Z7QWERTYUIOPASDFGA")] >>,
   main |-> <<"----begin example: billing-entity-config----", "----begin minmal example: billing-entity-config----", "----end: billing-entity-config----">>]

\* BillingEventHistory: src/src/demo/models/ebb/billing_event_history.py
BillingEventHistory ==
  [name |-> "BillingEventHistory", table |-> "billing_event_history",
   fields |-> <<
     Field("id", "int", FALSE, Required, [gt |-> 0]),
     Field("environment", "str", FALSE, Required, [max_length |-> 25]),
     Field("entity_uuid", "str", FALSE, Required, [max_length |-> 13]),
     Field("entity_type", "enum", FALSE, Required, [cls |-> "EntityType", vals |-> {"MERCHANT", "RESELLER", "DEVELOPER"}]),
     Field("event_uuid", "str", TRUE, None, [max_length |-> 26]),
     Field("input", "str", FALSE, Required, [any |-> TRUE]),
     Field("message", "str", TRUE, None, [max_length |-> 1024]),
     Field("created_timestamp", "datetime", FALSE, NowFactory, [any |-> TRUE]) >>,
   MINIMAL_FIELDS |-> {"environment", "entity_type", "message"},
   to_minimal_dict |-> "json",
   example |-> <<
       [k |-> "id", v |-> Integer(1)],
       [k |-> "environment", v |-> Str("PRODUCTION")],
       [k |-> "entity_uuid", v |-> Str("01H8X7Y7Z7QWE")],
       [k |-> "entity_type", v |-> Str("MERCHANT")],
       [k |-> "event_uuid", v |-> Str("01H8X7Y7Z7QWERTYUIOPASDFGH")],
       [k |-> "input", v |-> Str("{\"action\": \"create_invoice\", \"amount\": 99.99}")],
       [k |-> "message", v |-> Str("Invoice created successfully")],
       [k |-> "created_timestamp", v |-> Str("2023-10-27T10:00:00.123456")] >>,
   main |-> <<"----begin example: billing-event-history----", "----begin minmal example: billing-event-history----", "----end: billing-event-history----">>]

\* BillingHierarchy: src/src/demo/models/ebb/billing_hierarchy.py
BillingHierarchy ==
  [name |-> "BillingHierarchy", table |-> "billing_hierarchy",
   fields |-> <<
     Field("id", "int", FALSE, Required, [gt |-> 0]),
     Field("uuid", "str", FALSE, Required, [max_length |-> 26]),
     Field("hierarchy_type", "str", FALSE, Required, [max_length |-> 20]),
     Field("billing_entity_uuid", "str", FALSE, Required, [max_length |-> 26]),
     Field("effective_date", "date", FALSE, Required, [any |-> TRUE]),
     Field("deleted_date", "date", TRUE, None, [any |-> TRUE]),
     Field("parent_billing_hierarchy_uuid", "str", TRUE, None, [max_length |-> 26]),
     Field("created_timestamp", "datetime", FALSE, NowFactory, [any |-> TRUE]),
     Field("modified_timestamp", "datetime", FALSE, NowFactory, [any |-> TRUE]) >>,
   MINIMAL_FIELDS |-> {"hierarchy_type", "effective_date", "deleted_date"},
   to_minimal_dict |-> "json",
   example |-> <<
       [k |-> "id", v |-> Integer(1)],
       [k |-> "uuid", v |-> Str("01H8X7Y7Z7QWERTYUIOPASDFGH")],
       [k |-> "hierarchy_type", v |-> Str("STANDARD")],
       [k |-> "billing_entity_uuid", v |-> Str("01H8X7Y7Z7QWERTYUIOPASDFGZ")],
       [k |-> "effective_date", v |-> Str("2023-10-01")],
       [k |-> "deleted_date", v |-> None],
       [k |-> "parent_billing_hierarchy_uuid", v |-> Str("01H8X7Y7Z7QWERTYUIOPASDFGX")],
       [k |-> "created_timestamp", v |-> Str("2023-10-27T10:00:00.123456")],
       [k |-> "modified_timestamp", v |-> Str("2023-10-27T10:00:00.123456")] >>,
   main |-> <<"----begin example: billing-hierarchy----", "----begin minmal example: billing-hierarchy----", "----end: billing-hierarchy----">>]

\* BillingHierarchyCycle: src/src/demo/models/ebb/billing_hierarchy_cycle.py
BillingHierarchyCycle ==
  [name |-> "BillingHierarchyCycle", table |-> "billing_hierarchy_cycle",
   fields |-> <<
     Field("id", "int", FALSE, Required, [gt |-> 0]),
     Field("uuid", "str", FALSE, Required, [max_length |-> 26]),
     Field("processing_group_uuid", "str", FALSE, Required, [max_length |-> 26]),
     Field("billing_hierarchy_uuid", "str", FALSE, Required, [max_length |-> 26]),
     Field("cycle_date", "date", FALSE, Required, [any |-> TRUE]),
     Field("close_date", "date", TRUE, None, [any |-> TRUE]),
     Field("effective_close_date", "date", TRUE, None, [any |-> TRUE]),
     Field("billing_entity_uuid", "str", FALSE, Required, [max_length |-> 26]),
     Field("entity_uuid", "str", FALSE, Required, [max_length |-> 13]),
     Field("schedule_parent_be_uuid", "str", FALSE, Required, [max_length |-> 26]),
     Field("fee_rate_parent_be_uuid", "str", FALSE, Required, [max_length |-> 26]),
     Field("frequency", "enum", FALSE, Required, [cls |-> "Frequency", vals |-> {"NO_BILL", "MONTHLY"}]),
     Field("billing_day", "int", FALSE, Required, [any |-> TRUE]),
     Field("next_billing_date", "date", FALSE, Required, [any |-> TRUE]),
     Field("last_billing_date", "date", TRUE, None, [any |-> TRUE]),
     Field("arrears_billing_date", "date", TRUE, None, [any |-> TRUE]),
     Field("units_in_next_period", "int", FALSE, Required, [any |-> TRUE]),
     Field("units_in_last_period", "int", TRUE, None, [any |-> TRUE]),
     Field("units_in_arrears_period", "int", TRUE, None, [any |-> TRUE]),
     Field("default_currency", "str", FALSE, Required, [max_length |-> 3]),
     Field("post_method", "str", FALSE, Required, [max_length |-> 20]),
     Field("plan_billing_method", "str", FALSE, Required, [max_length |-> 20]),
     Field("invoice_method", "str", FALSE, Required, [max_length |-> 20]),
     Field("invoice_number_format", "str", FALSE, Required, [max_length |-> 20]),
     Field("settlement_method", "str", FALSE, Required, [max_length |-> 20]),
     Field("created_timestamp", "datetime", FALSE, NowFactory, [any |-> TRUE]),
     Field("modified_timestamp", "datetime", FALSE, NowFactory, [any |-> TRUE]) >>,
   MINIMAL_FIELDS |-> {"frequency", "billing_day", "next_billing_date", "default_currency", "post_method", "plan_billing_method", "invoice_method"},
   to_minimal_dict |-> "json",
   example |-> <<
       [k |-> "id", v |-> Integer(1)],
       [k |-> "uuid", v |-> Str("01H8X7Y7Z7QWERTYUIOPASDFGH")],
       [k |-> "processing_group_uuid", v |-> Str("01H8X7Y7Z7QWERTYUIOPASDFGZ")],
       [k |-> "billing_hierarchy_uuid", v |-> Str("01H8X7Y7Z7QWERTYUIOPASDFGX")],
       [k |-> "cycle_date", v |-> Str("2023-10-01")],
       [k |-> "close_date", v |-> Str("2023-10-31")],
       [k |-> "effective_close_date", v |-> Str("2023-10-31")],
       [k |-> "billing_entity_uuid", v |-> Str("01H8X7Y7Z7QWERTYUIOPASDFGW")],
       [k |-> "entity_uuid", v |-> Str("01H8X7Y7Z7QWE")],
       [k |-> "schedule_parent_be_uuid", v |-> Str("01H8X7Y7Z7QWERTYUIOPASDFGV")],
       [k |-> "fee_rate_parent_be_uuid", v |-> Str("01H8X7Y7Z7QWERTYUIOPASDFGU")],
       [k |-> "frequency", v |-> Str("MONTHLY")],
       [k |-> "billing_day", v |-> Integer(1)],
       [k |-> "next_billing_date", v |-> Str("2023-11-01")],
       [k |-> "last_billing_date", v |-> Str("2023-10-01")],
       [k |-> "arrears_billing_date", v |-> None],
       [k |-> "units_in_next_period", v |-> Integer(1)],
       [k |-> "units_in_last_period", v |-> Integer(1)],
       [k |-> "units_in_arrears_period", v |-> None],
       [k |-> "default_currency", v |-> Str("USD")],
       [k |-> "post_method", v |-> Str("AUTOMATIC")],
       [k |-> "plan_billing_method", v |-> Str("MONTHLY")],
       [k |-> "invoice_method", v |-> Str("EMAIL")],
       [k |-> "invoice_number_format", v |-> Str("INV-{YY}-{MM}-{NNN}")],
       [k |-> "settlement_method", v |-> Str("NET30")],
       [k |-> "created_timestamp", v |-> Str("2023-10-27T10:00:00.123456")],
       [k |-> "modified_timestamp", v |-> Str("2023-10-27T10:00:00.123456")] >>,
   main |-> <<"----begin example: billing-hierarchy-cycle----", "----begin minmal example: billing-hierarchy-cycle----", "----end: billing-hierarchy-cycle----">>]

\* BillingHierarchyType: src/src/demo/models/ebb/billing_hierarchy_type.py
BillingHierarchyType ==
  [name |-> "BillingHierarchyType", table |-> "billing_hierarchy_type",
   fields |-> <<
     Field("id", "int", FALSE, Required, [gt |-> 0]),
     Field("uuid", "str", FALSE, Required, [max_length |-> 26]),
     Field("hierarchy_type", "str", FALSE, Required, [max_length |-> 20]),
     Field("description", "str", TRUE, None, [max_length |-> 255]),
     Field("created_timestamp", "datetime", FALSE, NowFactory, [any |-> TRUE]),
     Field("modified_timestamp", "datetime", FALSE, NowFactory, [any |-> TRUE]) >>,
   MINIMAL_FIELDS |-> {"hierarchy_type", "description"},
   to_minimal_dict |-> "json",
   example |-> <<
       [k |-> "id", v |-> Integer(1)],
       [k |-> "uuid", v |-> Str("01H8X7Y7Z7QWERTYUIOPASDFGH")],
       [k |-> "hierarchy_type", v |-> Str("STANDARD")],
       [k |-> "description", v |-> Str("Standard billing hierarchy for regular merchants")],
       [k |-> "created_timestamp", v |-> Str("2023-10-27T10:00:00.123456")],
       [k |-> "modified_timestamp", v |-> Str("2023-10-27T10:00:00.123456")] >>,
   main |-> <<"----begin example: billing-hierarchy-type----", "----begin minmal example: billing-hierarchy-type----", "----end: billing-hierarchy-type----">>]

\* BillingPseudoEntity: src/src/demo/models/ebb/billing_pseudo_entity.py
BillingPseudoEntity ==
  [name |-> "BillingPseudoEntity", table |-> "billing_pseudo_entity",
   fields |-> <<
     Field("id", "int", FALSE, Required, [gt |-> 0]),
     Field("uuid", "str", FALSE, Required, [max_length |-> 13]),
     Field("name", "str", FALSE, Required, [max_length |-> 127]),
     Field("created_timestamp", "datetime", FALSE, NowFactory, [any |-> TRUE]),
     Field("modified_timestamp", "datetime", FALSE, NowFactory, [any |-> TRUE]) >>,
   MINIMAL_FIELDS |-> {"name"},
   to_minimal_dict |-> "json",
   example |-> <<
       [k |-> "id", v |-> Integer(1)],
       [k |-> "uuid", v |-> Str("01H8X7Y7Z7QWE")],
       [k |-> "name", v |-> Str("System Default Entity")],
       [k |-> "created_timestamp", v |-> Str("2023-10-27T10:00:00.123456")],
       [k |-> "modified_timestamp", v |-> Str("2023-10-27T10:00:00.123456")] >>,
   main |-> <<"----begin example: billing-pseudo-entity----", "----begin minmal example: billing-pseudo-entity----", "----end: billing-pseudo-entity----">>]

\* BillingSchedule: src/src/demo/models/ebb/billing_schedule.py
BillingSchedule ==
  [name |-> "BillingSchedule", table |-> "billing_schedule",
   fields |-> <<
     Field("id", "int", FALSE, Required, [gt |-> 0]),
     Field("uuid", "str", FALSE, Required, [max_length |-> 26]),
     Field("billing_entity_uuid", "str", FALSE, Required, [max_length |-> 26]),
     Field("effective_date", "date", FALSE, Required, [any |-> TRUE]),
     Field("frequency", "enum", FALSE, Required, [cls |-> "Frequency", vals |-> {"NO_BILL", "MONTHLY"}]),
     Field("billing_day", "int", FALSE, Required, [any |-> TRUE]),
     Field("next_billing_date", "date", FALSE, Required, [any |-> TRUE]),
     Field("last_billing_date", "date", TRUE, None, [any |-> TRUE]),
     Field("units_in_next_period", "int", FALSE, Required, [any |-> TRUE]),
     Field("units_in_last_period", "int", TRUE, None, [any |-> TRUE]),
     Field("default_currency", "str", FALSE, Required, [max_length |-> 3]),
     Field("close_date", "date", TRUE, None, [any |-> TRUE]),
     Field("effective_close_date", "date", TRUE, None, [any |-> TRUE]),
     Field("created_timestamp", "datetime", FALSE, NowFactory, [any |-> TRUE]),
     Field("modified_timestamp", "datetime", FALSE, NowFactory, [any |-> TRUE]) >>,
   MINIMAL_FIELDS |-> {"effective_date", "frequency", "billing_day", "next_billing_date", "units_in_next_period", "default_currency"},
   to_minimal_dict |-> "json",
   example |-> <<
       [k |-> "id", v |-> Integer(1)],
       [k |-> "uuid", v |-> Str("01H8X7Y7Z7QWERTYUIOPASDFGH")],
       [k |-> "billing_entity_uuid", v |-> Str("01H8X7Y7Z7QWERTYUIOPASDFGZ")],
       [k |-> "effective_date", v |-> Str("2023-10-01")],
       [k |-> "frequency", v |-> Str("MONTHLY")],
       [k |-> "billing_day", v |-> Integer(1)],
       [k |-> "next_billing_date", v |-> Str("2023-11-01")],
       [k |-> "last_billing_date", v |-> Str("2023-10-01")],
       [k |-> "units_in_next_period", v |-> Integer(1)],
       [k |-> "units_in_last_period", v |-> Integer(1)],
       [k |-> "default_currency", v |-> Str("USD")],
       [k |-> "close_date", v |-> None],
       [k |-> "effective_close_date", v |-> None],
       [k |-> "created_timestamp", v |-> Str("2023-10-27T10:00:00.123456")],
       [k |-> "modified_timestamp", v |-> Str("2023-10-27T10:00:00.123456")] >>,
   main |-> <<"----begin example: billing-schedule----", "----begin minmal example: billing-schedule----", "----end: billing-schedule----">>]

\* CellularAction: src/src/demo/models/ebb/cellular_action.py
CellularAction ==
  [name |-> "CellularAction", table |-> "cellular_action",
   fields |-> <<
     Field("id", "int", FALSE, Required, [gt |-> 0]),
     Field("uuid", "str", FALSE, Required, [max_length |-> 26]),
     Field("billing_entity_uuid", "str", FALSE, Required, [max_length |-> 26]),
     Field("merchant_plan_uuid", "str", TRUE, None, [max_length |-> 13]),
     Field("iccid", "str", FALSE, Required, [max_length |-> 24]),
     Field("carrier", "str", FALSE, Required, [max_length |-> 25]),
     Field("cellular_action_type", "str", FALSE, Required, [max_length |-> 25]),
     Field("fee_category", "str", FALSE, Required, [max_length |-> 25]),
     Field("fee_code", "str", FALSE, Required, [max_length |-> 25]),
     Field("action_datetime", "datetime", FALSE, Required, [any |-> TRUE]),
     Field("num_units", "int", FALSE, Integer(0), [any |-> TRUE]),
     Field("units_in_period", "int", FALSE, Required, [ge |-> 0]),
     Field("basis_amount", "decimal", FALSE, Decimal(FALSE, 0, 3), [max_digits |-> 12, decimal_places |-> 3]),
     Field("basis_currency", "str", TRUE, None, [max_length |-> 3]),
     Field("reference", "str", TRUE, None, [max_length |-> 50]),
     Field("cellular_action_fee_code_uuid", "str", TRUE, None, [max_length |-> 26]),
     Field("fee_uuid", "str", TRUE, None, [max_length |-> 26]),
     Field("event_uuid", "str", TRUE, None, [max_length |-> 26]),
     Field("request_uuid", "str", TRUE, None, [max_length |-> 26]),
     Field("date_to_post", "date", TRUE, None, [any |-> TRUE]),
     Field("posting_date", "date", TRUE, None, [any |-> TRUE]),
     Field("created_timestamp", "datetime", FALSE, NowFactory, [any |-> TRUE]),
     Field("modified_timestamp", "datetime", FALSE, NowFactory, [any |-> TRUE]) >>,
   MINIMAL_FIELDS |-> {"carrier", "cellular_action_type", "fee_category", "fee_code", "num_units", "units_in_period", "basis_amount"},
   to_minimal_dict |-> "json",
   example |-> <<
       [k |-> "id", v |-> Integer(1)],
       [k |-> "uuid", v |-> Str("01H8X7Y7Z7QWERTYUIOPASDFGH")],
       [k |-> "billing_entity_uuid", v |-> Str("01H8X7Y7Z7QWERTYUIOPASDFGZ")],
       [k |-> "merchant_plan_uuid", v |-> Str("01H8X7Y7Z7QWE")],
       [k |-> "iccid", v |-> Str("8901234567890123456")],
       [k |-> "carrier", v |-> Str("VERIZON")],
       [k |-> "cellular_action_type", v |-> Str("DATA_USAGE")],
       [k |-> "fee_category", v |-> Str("USAGE")],
       [k |-> "fee_code", v |-> Str("DATA_OVERAGE")],
       [k |-> "action_datetime", v |-> Str("2023-10-27T10:00:00.123456")],
       [k |-> "num_units", v |-> Integer(1024)],
       [k |-> "units_in_period", v |-> Integer(5120)],
       [k |-> "basis_amount", v |-> Str("0.010")],
       [k |-> "basis_currency", v |-> Str("USD")],
       [k |-> "reference", v |-> Str("Data overage billing")],
       [k |-> "cellular_action_fee_code_uuid", v |-> Str("01H8X7Y7Z7QWERTYUIOPASDFGA")],
       [k |-> "fee_uuid", v |-> Str("01H8X7Y7Z7QWERTYUIOPASDFGB")],
       [k |-> "event_uuid", v |-> Str("01H8X7Y7Z7QWERTYUIOPASDFGC")],
       [k |-> "request_uuid", v |-> Str("01H8X7Y7Z7QWERTYUIOPASDFGD")],
       [k |-> "date_to_post", v |-> Str("2023-11-01")],
       [k |-> "posting_date", v |-> Str("2023-11-01")],
       [k |-> "created_timestamp", v |-> Str("2023-10-27T10:00:00.123456")],
       [k |-> "modified_timestamp", v |-> Str("2023-10-27T10:00:00.123456")] >>,
   main |-> <<"----begin example: cellular-action----", "----begin minmal example: cellular-action----", "----end: cellular-action----">>]

\* CellularActionFeeCode: src/src/demo/models/ebb/cellular_action_fee_code.py
CellularActionFeeCode ==
  [name |-> "CellularActionFeeCode", table |-> "cellular_action_fee_code",
   fields |-> <<
     Field("id", "int", FALSE, Required, [gt |-> 0]),
     Field("uuid", "str", FALSE, Required, [max_length |-> 26]),
     Field("merchant_plan_uuid", "str", TRUE, None, [max_length |-> 13]),
     Field("carrier", "str", TRUE, None, [max_length |-> 25]),
     Field("cellular_action_type", "str", FALSE, Required, [max_length |-> 25]),
     Field("effective_date", "date", FALSE, Required, [any |-> TRUE]),
     Field("fee_category", "str", FALSE, Required, [max_length |-> 25]),
     Field("fee_code", "str", FALSE, Required, [max_length |-> 25]),
     Field("deleted_date", "date", TRUE, None, [any |-> TRUE]),
     Field("created_timestamp", "datetime", FALSE, NowFactory, [any |-> TRUE]),
     Field("modified_timestamp", "datetime", FALSE, NowFactory, [any |-> TRUE]),
     Field("audit_id", "str", TRUE, None, [max_length |-> 26]) >>,
   MINIMAL_FIELDS |-> {"carrier", "cellular_action_type", "effective_date", "fee_category", "fee_code"},
   to_minimal_dict |-> "json",
   example |-> <<
       [k |-> "id", v |-> Integer(1)],
       [k |-> "uuid", v |-> Str("01H8X7Y7Z7QWERTYUIOPASDFGH")],
       [k |-> "merchant_plan_uuid", v |-> Str("01H8X7Y7Z7QWE")],
       [k |-> "carrier", v |-> Str("VERIZON")],
       [k |-> "cellular_action_type", v |-> Str("DATA_USAGE")],
       [k |-> "effective_date", v |-> Str("2023-10-01")],
       [k |-> "fee_category", v |-> Str("USAGE")],
       [k |-> "fee_code", v |-> Str("DATA_OVERAGE")],
       [k |-> "deleted_date", v |-> None],
       [k |-> "created_timestamp", v |-> Str("2023-10-27T10:00:00.123456")],
       [k |-> "modified_timestamp", v |-> Str("2023-10-27T10:00:00.123456")],
       [k |-> "audit_id", v |-> Str("01H8X7Y7Z7QWERTYUIOPASDFGA")] >>,
   main |-> <<"----begin example: cellular-action-fee-code----", "----begin minmal example: cellular-action-fee-code----", "----end: cellular-action-fee-code----">>]

\* ConsumerFailureHistory: src/src/demo/models/ebb/consumer_failure_history.py
ConsumerFailureHistory ==
  [name |-> "ConsumerFailureHistory", table |-> "consumer_failure_history",
   fields |-> <<
     Field("id", "int", FALSE, Required, [gt |-> 0]),
     Field("uuid", "str", FALSE, Required, [max_length |-> 36]),
     Field("environment", "str", FALSE, Required, [max_length |-> 25]),
     Field("reference_id", "str", FALSE, Required, [max_length |-> 13]),
     Field("payload", "str", FALSE, Required, [any |-> TRUE]),
     Field("channel", "str", TRUE, None, [max_length |-> 127]),
     Field("topic", "str", TRUE, None, [max_length |-> 127]),
     Field("cause", "str", FALSE, Required, [max_length |-> 100]),
     Field("message", "str", TRUE, None, [max_length |-> 500]),
     Field("comment", "str", TRUE, None, [max_length |-> 500]),
     Field("created_timestamp", "datetime", FALSE, NowFactory, [any |-> TRUE]) >>,
   MINIMAL_FIELDS |-> {"environment", "channel", "topic", "cause", "comment"},
   to_minimal_dict |-> "json",
   example |-> <<
       [k |-> "id", v |-> Integer(1)],
       [k |-> "uuid", v |-> Str("01H8X7Y7-Z7QW-ERTY-UIOP-ASDFGHJKLZXC")],
       [k |-> "environment", v |-> Str("PRODUCTION")],
       [k |-> "reference_id", v |-> Str("01H8X7Y7Z7QWE")],
       [k |-> "payload", v |-> Str("{\"message_id\": \"12345\", \"error\": \"Invalid format\"}")],
       [k |-> "channel", v |-> Str("billing-events")],
       [k |-> "topic", v |-> Str("cellular-usage")],
       [k |-> "cause", v |-> Str("VALIDATION_ERROR")],
       [k |-> "message", v |-> Str("Message failed validation due to missing required field")],
       [k |-> "comment", v |-> Str("Moved to history after manual resolution")],
       [k |-> "created_timestamp", v |-> Str("2023-10-27T10:00:00.123456")] >>,
   main |-> <<"----begin example: consumer-failure-history----", "----begin minmal example: consumer-failure-history----", "----end: consumer-failure-history----">>]

\* CycleValidation: src/src/demo/models/ebb/cycle_validation.py
CycleValidation ==
  [name |-> "CycleValidation", table |-> "cycle_validation",
   fields |-> <<
     Field("id", "int", FALSE, Required, [gt |-> 0]),
     Field("uuid", "str", FALSE, Required, [max_length |-> 26]),
     Field("task_id", "str", FALSE, Required, [max_length |-> 126]),
     Field("task_type", "enum", FALSE, Required, [cls |-> "TaskType", vals |-> {"PRODUCER", "CONSUMER"}]),
     Field("validation_group", "str", FALSE, Required, [max_length |-> 126]),
     Field("billing_entity_uuid", "str", FALSE, Required, [max_length |-> 26]),
     Field("hierarchy_type", "str", FALSE, Required, [max_length |-> 20]),
     Field("cycle_date", "date", FALSE, Required, [any |-> TRUE]),
     Field("currency", "str", FALSE, Required, [max_length |-> 3]),
     Field("status", "str", FALSE, Required, [max_length |-> 25]),
     Field("bypass_count", "decimal", FALSE, Required, [max_digits |-> 12, decimal_places |-> 4]),
     Field("bypass_amount", "decimal", FALSE, Required, [max_digits |-> 12, decimal_places |-> 3]),
     Field("accepted_count", "decimal", FALSE, Required, [max_digits |-> 12, decimal_places |-> 4]),
     Field("accepted_amount", "decimal", FALSE, Required, [max_digits |-> 12, decimal_places |-> 3]),
     Field("total_count", "decimal", FALSE, Required, [max_digits |-> 12, decimal_places |-> 4]),
     Field("total_amount", "decimal", FALSE, Required, [max_digits |-> 12, decimal_places |-> 3]),
     Field("request_uuid", "str", TRUE, None, [max_length |-> 26]),
     Field("validation_request_uuid", "str", TRUE, None, [max_length |-> 26]),
     Field("created_timestamp", "datetime", FALSE, NowFactory, [any |-> TRUE]),
     Field("modified_timestamp", "datetime", FALSE, NowFactory, [any |-> TRUE]) >>,
   MINIMAL_FIELDS |-> {"task_type", "validation_group", "hierarchy_type", "currency", "status", "total_count", "total_amount"},
   to_minimal_dict |-> "json",
   example |-> <<
       [k |-> "id", v |-> Integer(1)],
       [k |-> "uuid", v |-> Str("01H8X7Y7Z7QWERTYUIOPASDFGH")],
       [k |-> "task_id", v |-> Str("validation-task-2023-10-27")],
       [k |-> "task_type", v |-> Str("CONSUMER")],
       [k |-> "validation_group", v |-> Str("monthly-billing-validation")],
       [k |-> "billing_entity_uuid", v |-> Str("01H8X7Y7Z7QWERTYUIOPASDFGZ")],
       [k |-> "hierarchy_type", v |-> Str("STANDARD")],
       [k |-> "cycle_date", v |-> Str("2023-10-01")],
       [k |-> "currency", v |-> Str("USD")],
       [k |-> "status", v |-> Str("COMPLETED")],
       [k |-> "bypass_count", v |-> Str("5.0000")],
       [k |-> "bypass_amount", v |-> Str("125.500")],
       [k |-> "accepted_count", v |-> Str("995.0000")],
       [k |-> "accepted_amount", v |-> Str("24875.250")],
       [k |-> "total_count", v |-> Str("1000.0000")],
       [k |-> "total_amount", v |-> Str("25000.750")],
       [k |-> "request_uuid", v |-> Str("01H8X7Y7Z7QWERTYUIOPASDFGD")],
       [k |-> "validation_request_uuid", v |-> Str("01H8X7Y7Z7QWERTYUIOPASDFGX")],
       [k |-> "created_timestamp", v |-> Str("2023-10-27T10:00:00.123456")],
       [k |-> "modified_timestamp", v |-> Str("2023-10-27T10:00:00.123456")] >>,
   main |-> <<"----begin example: cycle-validation----", "----begin minmal example: cycle-validation----", "----end: cycle-validation----">>]

\* CycleValidationMutation: src/src/demo/models/ebb/cycle_validation_mutation.py
CycleValidationMutation ==
  [name |-> "CycleValidationMutation", table |-> "cycle_validation_mutation",
   fields |-> <<
     Field("id", "int", FALSE, Required, [gt |-> 0]),
     Field("mutation_action", "enum", FALSE, Required, [cls |-> "MutationAction", vals |-> {"UPDATE", "DELETE"}]),
     Field("mutation_timestamp", "datetime", FALSE, NowFactory, [any |-> TRUE]),
     Field("cycle_validation_id", "int", FALSE, Required, [gt |-> 0]),
     Field("uuid", "str", FALSE, Required, [max_length |-> 26]),
     Field("task_id", "str", TRUE, None, [max_length |-> 126]),
     Field("task_type", "enum", TRUE, None, [cls |-> "TaskType", vals |-> {"PRODUCER", "CONSUMER"}]),
     Field("validation_group", "str", TRUE, None, [max_length |-> 126]),
     Field("billing_entity_uuid", "str", TRUE, None, [max_length |-> 26]),
     Field("hierarchy_type", "str", TRUE, None, [max_length |-> 20]),
     Field("cycle_date", "date", TRUE, None, [any |-> TRUE]),
     Field("currency", "str", TRUE, None, [max_length |-> 3]),
     Field("status", "str", TRUE, None, [max_length |-> 25]),
     Field("bypass_count", "decimal", TRUE, None, [max_digits |-> 12, decimal_places |-> 4]),
     Field("bypass_amount", "decimal", TRUE, None, [max_digits |-> 12, decimal_places |-> 3]),
     Field("accepted_count", "decimal", TRUE, None, [max_digits |-> 12, decimal_places |-> 4]),
     Field("accepted_amount", "decimal", TRUE, None, [max_digits |-> 12, decimal_places |-> 3]),
     Field("total_count", "decimal", TRUE, None, [max_digits |-> 12, decimal_places |-> 4]),
     Field("total_amount", "decimal", TRUE, None, [max_digits |-> 12, decimal_places |-> 3]),
     Field("request_uuid", "str", TRUE, None, [max_length |-> 26]),
     Field("validation_request_uuid", "str", TRUE, None, [max_length |-> 26]),
     Field("created_timestamp", "datetime", TRUE, None, [any |-> TRUE]),
     Field("modified_timestamp", "datetime", TRUE, None, [any |-> TRUE]) >>,
   MINIMAL_FIELDS |-> {"mutation_action", "task_type", "validation_group", "currency", "status", "total_count", "total_amount"},
   to_minimal_dict |-> "json",
   example |-> <<
       [k |-> "id", v |-> Integer(1)],
       [k |-> "mutation_action", v |-> Str("UPDATE")],
       [k |-> "mutation_timestamp", v |-> Str("2023-10-27T10:00:00.123456")],
       [k |-> "cycle_validation_id", v |-> Integer(123)],
       [k |-> "uuid", v |-> Str("01H8X7Y7Z7QWERTYUIOPASDFGH")],
       [k |-> "task_id", v |-> Str("validation-task-2023-10-27")],
       [k |-> "task_type", v |-> Str("CONSUMER")],
       [k |-> "validation_group", v |-> Str("monthly-billing-validation")],
       [k |-> "billing_entity_uuid", v |-> Str("01H8X7Y7Z7QWERTYUIOPASDFGZ")],
       [k |-> "hierarchy_type", v |-> Str("STANDARD")],
       [k |-> "cycle_date", v |-> Str("2023-10-01")],
       [k |-> "currency", v |-> Str("USD")],
       [k |-> "status", v |-> Str("COMPLETED")],
       [k |-> "bypass_count", v |-> Str("5.0000")],
       [k |-> "bypass_amount", v |-> Str("125.500")],
       [k |-> "accepted_count", v |-> Str("995.0000")],
       [k |-> "accepted_amount", v |-> Str("24875.250")],
       [k |-> "total_count", v |-> Str("1000.0000")],
       [k |-> "total_amount", v |-> Str("25000.750")],
       [k |-> "request_uuid", v |-> Str("01H8X7Y7Z7QWERTYUIOPASDFGD")],
       [k |-> "validation_request_uuid", v |-> Str("01H8X7Y7Z7QWERTYUIOPASDFGX")],
       [k |-> "created_timestamp", v |-> Str("2023-10-27T09:00:00.123456")],
       [k |-> "modified_timestamp", v |-> Str("2023-10-27T09:30:00.123456")] >>,
   main |-> <<"----begin example: cycle-validation-mutation----", "----begin minmal example: cycle-validation-mutation----", "----end: cycle-validation-mutation----">>]

\* DeserializableFailure: src/src/demo/models/ebb/deserializable_failure.py
DeserializableFailure ==
  [name |-> "DeserializableFailure", table |-> "deserializable_failure",
   fields |-> <<
     Field("id", "int", FALSE, Required, [gt |-> 0]),
     Field("uuid", "str", FALSE, Required, [max_length |-> 36]),
     Field("topic", "str", FALSE, Required, [max_length |-> 127]),
     Field("channel", "str", FALSE, Required, [max_length |-> 127]),
     Field("b64", "str", FALSE, Required, [any |-> TRUE]),
     Field("created_timestamp", "datetime", FALSE, NowFactory, [any |-> TRUE]) >>,
   MINIMAL_FIELDS |-> {"topic", "channel"},
   to_minimal_dict |-> "json",
   example |-> <<
       [k |-> "id", v |-> Integer(1)],
       [k |-> "uuid", v |-> Str("01H8X7Y7-Z7QW-ERTY-UIOP-ASDFGHJKLZXC")],
       [k |-> "topic", v |-> Str("billing-events")],
       [k |-> "channel", v |-> Str("cellular-usage")],
       [k |-> "b64", v |-> Str("eyJtZXNzYWdlIjoiZGVzZXJpYWxpemF0aW9uIGZhaWx1cmUifQ==")],
       [k |-> "created_timestamp", v |-> Str("2023-10-27T10:00:00.123456")] >>,
   main |-> <<"----begin example: deserializable-failure----", "----begin minmal example: deserializable-failure----", "----end: deserializable-failure----">>]

\* FeeCategory: src/src/demo/models/ebb/fee_category.py
FeeCategory ==
  [name |-> "FeeCategory", table |-> "fee_category",
   fields |-> <<
     Field("id", "int", FALSE, Required, [gt |-> 0]),
     Field("uuid", "str", FALSE, Required, [max_length |-> 26]),
     Field("fee_category", "str", FALSE, Required, [max_length |-> 25]),
     Field("sort_order", "int", FALSE, Required, [any |-> TRUE]),
     Field("created_timestamp", "datetime", FALSE, NowFactory, [any |-> TRUE]),
     Field("modified_timestamp", "datetime", FALSE, NowFactory, [any |-> TRUE]) >>,
   MINIMAL_FIELDS |-> {"fee_category", "sort_order"},
   to_minimal_dict |-> "json",
   example |-> <<
       [k |-> "id", v |-> Integer(1)],
       [k |-> "uuid", v |-> Str("01H8X7Y7Z7QWERTYUIOPASDFGH")],
       [k |-> "fee_category", v |-> Str("RECURRING")],
       [k |-> "sort_order", v |-> Integer(10)],
       [k |-> "created_timestamp", v |-> Str("2023-10-27T10:00:00.123456")],
       [k |-> "modified_timestamp", v |-> Str("2023-10-27T10:00:00.123456")] >>,
   main |-> <<"----begin example: fee-category----", "----begin minmal example: fee-category----", "----end: fee-category----">>]

\* FeeCode: src/src/demo/models/ebb/fee_code.py
FeeCode ==
  [name |-> "FeeCode", table |-> "fee_code",
   fields |-> <<
     Field("id", "int", FALSE, Required, [gt |-> 0]),
     Field("uuid", "str", FALSE, Required, [max_length |-> 26]),
     Field("fee_category", "str", FALSE, Required, [max_length |-> 25]),
     Field("fee_code", "str", FALSE, Required, [max_length |-> 25]),
     Field("short_desc", "str", FALSE, Required, [max_length |-> 40]),
     Field("full_desc", "str", TRUE, None, [max_length |-> 255]),
     Field("sort_order", "int", FALSE, Required, [any |-> TRUE]),
     Field("created_timestamp", "datetime", FALSE, NowFactory, [any |-> TRUE]),
     Field("modified_timestamp", "datetime", FALSE, NowFactory, [any |-> TRUE]) >>,
   MINIMAL_FIELDS |-> {"fee_category", "fee_code", "short_desc", "sort_order"},
   to_minimal_dict |-> "json",
   example |-> <<
       [k |-> "id", v |-> Integer(1)],
       [k |-> "uuid", v |-> Str("01H8X7Y7Z7QWERTYUIOPASDFGH")],
       [k |-> "fee_category", v |-> Str("RECURRING")],
       [k |-> "fee_code", v |-> Str("MONTHLY_FEE")],
       [k |-> "short_desc", v |-> Str("Monthly subscription fee")],
       [k |-> "full_desc", v |-> Str("Standard monthly subscription fee for basic service plan")],
       [k |-> "sort_order", v |-> Integer(10)],
       [k |-> "created_timestamp", v |-> Str("2023-10-27T10:00:00.123456")],
       [k |-> "modified_timestamp", v |-> Str("2023-10-27T10:00:00.123456")] >>,
   main |-> <<"----begin example: fee-code----", "----begin minmal example: fee-code----", "----end: fee-code----">>]

\* FeeCodeApp: src/src/demo/models/ebb/fee_code_app.py
FeeCodeApp ==
  [name |-> "FeeCodeApp", table |-> "fee_code_app",
   fields |-> <<
     Field("id", "int", FALSE, Required, [gt |-> 0]),
     Field("uuid", "str", FALSE, Required, [max_length |-> 26]),
     Field("fee_category", "str", FALSE, Required, [max_length |-> 25]),
     Field("fee_code", "str", FALSE, Required, [max_length |-> 25]),
     Field("developer_uuid", "str", FALSE, Required, [max_length |-> 13]),
     Field("developer_app_uuid", "str", TRUE, None, [max_length |-> 13]),
     Field("app_subscription_uuid", "str", TRUE, None, [max_length |-> 13]),
     Field("app_metered_uuid", "str", TRUE, None, [max_length |-> 13]),
     Field("created_timestamp", "datetime", FALSE, NowFactory, [any |-> TRUE]),
     Field("modified_timestamp", "datetime", FALSE, NowFactory, [any |-> TRUE]) >>,
   MINIMAL_FIELDS |-> {"fee_category", "fee_code"},
   to_minimal_dict |-> "json",
   example |-> <<
       [k |-> "id", v |-> Integer(1)],
       [k |-> "uuid", v |-> Str("01H8X7Y7Z7QWERTYUIOPASDFGH")],
       [k |-> "fee_category", v |-> Str("RECURRING")],
       [k |-> "fee_code", v |-> Str("APP_SUBSCRIPTION")],
       [k |-> "developer_uuid", v |-> Str("01H8X7Y7Z7QWE")],
       [k |-> "developer_app_uuid", v |-> Str("01H8X7Y7Z7QWR")],
       [k |-> "app_subscription_uuid", v |-> Str("01H8X7Y7Z7QWT")],
       [k |-> "app_metered_uuid", v |-> None],
       [k |-> "created_timestamp", v |-> Str("2023-10-27T10:00:00.123456")],
       [k |-> "modified_timestamp", v |-> Str("2023-10-27T10:00:00.123456")] >>,
   main |-> <<"----begin example: fee-code-app----", "----begin minmal example: fee-code-app----", "----end: fee-code-app----">>]

\* FeeCodeLedgerAccount: src/src/demo/models/ebb/fee_code_ledger_account.py
FeeCodeLedgerAccount ==
  [name |-> "FeeCodeLedgerAccount", table |-> "fee_code_ledger_account",
   fields |-> <<
     Field("id", "int", FALSE, Required, [gt |-> 0]),
     Field("uuid", "str", FALSE, Required, [max_length |-> 26]),
     Field("fee_category", "str", FALSE, Required, [max_length |-> 25]),
     Field("fee_code", "str", TRUE, None, [max_length |-> 25]),
     Field("effective_date", "date", FALSE, Required, [any |-> TRUE]),
     Field("credit_ledger_account_key", "str", FALSE, Required, [max_length |-> 32]),
     Field("credit_billing_entity_uuid_source", "enum", FALSE, Required, [cls |-> "BillingEntityUuidSource", vals |-> {"TRANSACTION", "CLOVER", "ROLLUP_1", "ROLLUP_2", "ROLLUP_3"}]),
     Field("debit_ledger_account_key", "str", FALSE, Required, [max_length |-> 32]),
     Field("debit_billing_entity_uuid_source", "enum", FALSE, Required, [cls |-> "BillingEntityUuidSource", vals |-> {"TRANSACTION", "CLOVER", "ROLLUP_1", "ROLLUP_2", "ROLLUP_3"}]),
     Field("deleted_date", "date", TRUE, None, [any |-> TRUE]),
     Field("created_timestamp", "datetime", FALSE, NowFactory, [any |-> TRUE]),
     Field("modified_timestamp", "datetime", FALSE, NowFactory, [any |-> TRUE]),
     Field("audit_id", "str", TRUE, None, [max_length |-> 26]) >>,
   MINIMAL_FIELDS |-> {"fee_category", "fee_code", "effective_date", "credit_ledger_account_key", "debit_ledger_account_key"},
   to_minimal_dict |-> "json",
   example |-> <<
       [k |-> "id", v |-> Integer(1)],
       [k |-> "uuid", v |-> Str("01H8X7Y7Z7QWERTYUIOPASDFGH")],
       [k |-> "fee_category", v |-> Str("RECURRING")],
       [k |-> "fee_code", v |-> Str("MONTHLY_FEE")],
       [k |-> "effective_date", v |-> Str("2023-10-01")],
       [k |-> "credit_ledger_account_key", v |-> Str("REVENUE_MONTHLY_FEES")],
       [k |-> "credit_billing_entity_uuid_source", v |-> Str("TRANSACTION")],
       [k |-> "debit_ledger_account_key", v |-> Str("AR_CUSTOMER_RECEIVABLES")],
       [k |-> "debit_billing_entity_uuid_source", v |-> Str("CLOVER")],
       [k |-> "deleted_date", v |-> None],
       [k |-> "created_timestamp", v |-> Str("2023-10-27T10:00:00.123456")],
       [k |-> "modified_timestamp", v |-> Str("2023-10-27T10:00:00.123456")],
       [k |-> "audit_id", v |-> Str("01H8X7Y7Z7QWERTYUIOPASDFGA")] >>,
   main |-> <<"----begin example: fee-code-ledger-account----", "----begin minmal example: fee-code-ledger-account----", "----end: fee-code-ledger-account----">>]

\* FeeCtd: src/src/demo/models/ebb/fee_ctd.py
FeeCtd ==
  [name |-> "FeeCtd", table |-> "fee_ctd",
   fields |-> <<
     Field("id", "int", FALSE, Required, [gt |-> 0]),
     Field("uuid", "str", FALSE, Required, [max_length |-> 26]),
     Field("billing_entity_uuid", "str", FALSE, Required, [max_length |-> 26]),
     Field("fee_category", "str", FALSE, Required, [max_length |-> 25]),
     Field("fee_code", "str", FALSE, Required, [max_length |-> 25]),
     Field("currency", "str", FALSE, Required, [max_length |-> 3]),
     Field("ctd_num_units", "decimal", FALSE, Decimal(FALSE, 0, 4), [max_digits |-> 12, decimal_places |-> 4]),
     Field("abs_num_units", "decimal", FALSE, Decimal(FALSE, 0, 4), [max_digits |-> 12, decimal_places |-> 4]),
     Field("ctd_basis_amount", "decimal", FALSE, Decimal(FALSE, 0, 3), [max_digits |-> 12, decimal_places |-> 3]),
     Field("abs_basis_amount", "decimal", FALSE, Decimal(FALSE, 0, 3), [max_digits |-> 12, decimal_places |-> 3]),
     Field("num_actions", "int", FALSE, Integer(0), [any |-> TRUE]),
     Field("created_timestamp", "datetime", FALSE, NowFactory, [any |-> TRUE]),
     Field("modified_timestamp", "datetime", FALSE, NowFactory, [any |-> TRUE]) >>,
   MINIMAL_FIELDS |-> {"fee_category", "fee_code", "currency", "ctd_num_units", "ctd_basis_amount", "num_actions"},
   to_minimal_dict |-> "json",
   example |-> <<
       [k |-> "id", v |-> Integer(1)],
       [k |-> "uuid", v |-> Str("01H8X7Y7Z7QWERTYUIOPASDFGH")],
       [k |-> "billing_entity_uuid", v |-> Str("01H8X7Y7Z7QWERTYUIOPASDFGZ")],
       [k |-> "fee_category", v |-> Str("RECURRING")],
       [k |-> "fee_code", v |-> Str("MONTHLY_FEE")],
       [k |-> "currency", v |-> Str("USD")],
       [k |-> "ctd_num_units", v |-> Str("100.0000")],
       [k |-> "abs_num_units", v |-> Str("100.0000")],
       [k |-> "ctd_basis_amount", v |-> Str("2500.000")],
       [k |-> "abs_basis_amount", v |-> Str("2500.000")],
       [k |-> "num_actions", v |-> Integer(50)],
       [k |-> "created_timestamp", v |-> Str("2023-10-27T10:00:00.123456")],
       [k |-> "modified_timestamp", v |-> Str("2023-10-27T10:00:00.123456")] >>,
   main |-> <<"----begin example: fee-ctd----", "----begin minmal example: fee-ctd----", "----end: fee-ctd----">>]

\* FeeRate: src/src/demo/models/ebb/fee_rate.py
FeeRate ==
  [name |-> "FeeRate", table |-> "fee_rate",
   fields |-> <<
     Field("id", "int", FALSE, Required, [gt |-> 0]),
     Field("uuid", "str", FALSE, Required, [max_length |-> 26]),
     Field("billing_entity_uuid", "str", FALSE, Required, [max_length |-> 26]),
     Field("fee_category", "str", FALSE, Required, [max_length |-> 25]),
     Field("fee_code", "str", FALSE, Required, [max_length |-> 25]),
     Field("currency", "str", FALSE, Required, [max_length |-> 3]),
     Field("effective_date", "date", FALSE, Required, [any |-> TRUE]),
     Field("apply_type", "enum", FALSE, Required, [cls |-> "ApplyType", vals |-> {"DEFAULT", "PER_ITEM", "PERCENTAGE", "BOTH", "NONE", "FLAT"}]),
     Field("per_item_amount", "decimal", TRUE, None, [max_digits |-> 12, decimal_places |-> 3]),
     Field("percentage", "decimal", TRUE, None, [max_digits |-> 5, decimal_places |-> 2]),
     Field("created_timestamp", "datetime", FALSE, NowFactory, [any |-> TRUE]),
     Field("modified_timestamp", "datetime", FALSE, NowFactory, [any |-> TRUE]),
     Field("audit_id", "str", TRUE, None, [max_length |-> 26]) >>,
   MINIMAL_FIELDS |-> {"fee_category", "fee_code", "currency", "effective_date", "apply_type", "per_item_amount", "percentage"},
   to_minimal_dict |-> "json",
   example |-> <<
       [k |-> "id", v |-> Integer(1)],
       [k |-> "uuid", v |-> Str("01H8X7Y7Z7QWERTYUIOPASDFGH")],
       [k |-> "billing_entity_uuid", v |-> Str("01H8X7Y7Z7QWERTYUIOPASDFGZ")],
       [k |-> "fee_category", v |-> Str("RECURRING")],
       [k |-> "fee_code", v |-> Str("MONTHLY_FEE")],
       [k |-> "currency", v |-> Str("USD")],
       [k |-> "effective_date", v |-> Str("2023-10-01")],
       [k |-> "apply_type", v |-> Str("PER_ITEM")],
       [k |-> "per_item_amount", v |-> Str("29.990")],
       [k |-> "percentage", v |-> None],
       [k |-> "created_timestamp", v |-> Str("2023-10-27T10:00:00.123456")],
       [k |-> "modified_timestamp", v |-> Str("2023-10-27T10:00:00.123456")],
       [k |-> "audit_id", v |-> Str("01H8X7Y7Z7QWERTYUIOPASDFGA")] >>,
   main |-> <<"----begin example: fee-rate----", "----begin minmal example: fee-rate----", "----end: fee-rate----">>]

\* FeeRateErrorReport: src/src/demo/models/ebb/fee_rate_error_report.py
FeeRateErrorReport ==
  [name |-> "FeeRateErrorReport", table |-> "fee_rate_error_report",
   fields |-> <<
     Field("id", "int", FALSE, Required, [gt |-> 0]),
     Field("uuid", "str", FALSE, Required, [max_length |-> 26]),
     Field("billing_entity_uuid", "str", FALSE, Required, [max_length |-> 26]),
     Field("fee_category", "str", FALSE, Required, [max_length |-> 25]),
     Field("fee_code", "str", FALSE, Required, [max_length |-> 25]),
     Field("currency", "str", FALSE, Required, [max_length |-> 3]),
     Field("apply_type", "enum", TRUE, None, [cls |-> "ApplyType", vals |-> {"DEFAULT", "PER_ITEM", "PERCENTAGE", "BOTH", "NONE", "FLAT"}]),
     Field("resolved_status", "int", TRUE, Integer(0), [any |-> TRUE]),
     Field("created_timestamp", "datetime", FALSE, NowFactory, [any |-> TRUE]),
     Field("modified_timestamp", "datetime", FALSE, NowFactory, [any |-> TRUE]) >>,
   MINIMAL_FIELDS |-> {"fee_category", "fee_code", "currency", "apply_type", "resolved_status"},
   to_minimal_dict |-> "json",
   example |-> <<
       [k |-> "id", v |-> Integer(1)],
       [k |-> "uuid", v |-> Str("01H8X7Y7Z7QWERTYUIOPASDFGH")],
       [k |-> "billing_entity_uuid", v |-> Str("01H8X7Y7Z7QWERTYUIOPASDFGZ")],
       [k |-> "fee_category", v |-> Str("RECURRING")],
       [k |-> "fee_code", v |-> Str("MONTHLY_FEE")],
       [k |-> "currency", v |-> Str("USD")],
       [k |-> "apply_type", v |-> Str("PER_ITEM")],
       [k |-> "resolved_status", v |-> Integer(0)],
       [k |-> "created_timestamp", v |-> Str("2023-10-27T10:00:00.123456")],
       [k |-> "modified_timestamp", v |-> Str("2023-10-27T10:00:00.123456")] >>,
   main |-> <<"----begin example: fee-rate-error-report----", "----begin minmal example: fee-rate-error-report----", "----end: fee-rate-error-report----">>]

\* FeeRateReportActionError: src/src/demo/models/ebb/fee_rate_report_action_error.py
FeeRateReportActionError ==
  [name |-> "FeeRateReportActionError", table |-> "fee_rate_report_action_error",
   fields |-> <<
     Field("id", "int", FALSE, Required, [gt |-> 0]),
     Field("uuid", "str", FALSE, Required, [max_length |-> 26]),
     Field("billing_entity_uuid", "str", FALSE, Required, [max_length |-> 26]),
     Field("fee_rate_error_report_uuid", "str", FALSE, Required, [max_length |-> 26]),
     Field("action_error_uuid", "str", FALSE, Required, [max_length |-> 26]),
     Field("action_type", "str", FALSE, Required, [max_length |-> 25]),
     Field("created_timestamp", "datetime", FALSE, Required, [any |-> TRUE]) >>,
   MINIMAL_FIELDS |-> {"action_type", "created_timestamp"},
   to_minimal_dict |-> "json",
   example |-> <<
       [k |-> "id", v |-> Integer(1)],
       [k |-> "uuid", v |-> Str("01H8X7Y7Z7QWERTYUIOPASDFGH")],
       [k |-> "billing_entity_uuid", v |-> Str("01H8X7Y7Z7QWERTYUIOPASDFGX")],
       [k |-> "fee_rate_error_report_uuid", v |-> Str("01H8X7Y7Z7QWERTYUIOPASDFGY")],
       [k |-> "action_error_uuid", v |-> Str("01H8X7Y7Z7QWERTYUIOPASDFGZ")],
       [k |-> "action_type", v |-> Str("PLAN_ACTION")],
       [k |-> "created_timestamp", v |-> Str("2023-10-27T10:00:00.123456")] >>,
   main |-> <<"----begin example: fee-rate-report-action-error----", "----begin minmal example: fee-rate-report-action-error----", "----end: fee-rate-report-action-error----">>]

\* FeeSummary: src/src/demo/models/ebb/fee_summary.py
FeeSummary ==
  [name |-> "FeeSummary", table |-> "fee_summary",
   fields |-> <<
     Field("id", "int", FALSE, Required, [gt |-> 0]),
     Field("uuid", "str", FALSE, Required, [max_length |-> 26]),
     Field("billing_entity_uuid", "str", FALSE, Required, [max_length |-> 26]),
     Field("billing_date", "date", FALSE, Required, [any |-> TRUE]),
     Field("fee_category", "str", FALSE, Required, [max_length |-> 25]),
     Field("fee_code", "str", FALSE, Required, [max_length |-> 25]),
     Field("currency", "str", FALSE, Required, [max_length |-> 3]),
     Field("total_period_units", "decimal", FALSE, Required, [max_digits |-> 12, decimal_places |-> 4]),
     Field("abs_period_units", "decimal", FALSE, Required, [max_digits |-> 12, decimal_places |-> 4]),
     Field("total_basis_amount", "decimal", FALSE, Required, [max_digits |-> 12, decimal_places |-> 3]),
     Field("abs_basis_amount", "decimal", FALSE, Required, [max_digits |-> 12, decimal_places |-> 3]),
     Field("total_fee_amount", "decimal", FALSE, Required, [max_digits |-> 12, decimal_places |-> 3]),
     Field("fee_rate_uuid", "str", FALSE, Required, [max_length |-> 26]),
     Field("request_uuid", "str", FALSE, Required, [max_length |-> 26]),
     Field("invoice_info_uuid", "str", TRUE, None, [max_length |-> 26]),
     Field("fee_code_ledger_account_uuid", "str", TRUE, None, [max_length |-> 26]),
     Field("credit_ledger_account_uuid", "str", TRUE, None, [max_length |-> 26]),
     Field("debit_ledger_account_uuid", "str", TRUE, None, [max_length |-> 26]),
     Field("exclude_from_invoice", "int", FALSE, Required, [any |-> TRUE]),
     Field("created_timestamp", "datetime", FALSE, Required, [any |-> TRUE]),
     Field("modified_timestamp", "datetime", FALSE, Required, [any |-> TRUE]) >>,
   MINIMAL_FIELDS |-> {"total_period_units", "total_basis_amount", "total_fee_amount"},
   to_minimal_dict |-> "json",
   example |-> <<
       [k |-> "id", v |-> Integer(1)],
       [k |-> "uuid", v |-> Str("01H8X7Y7Z7QWERTYUIOPASDFGH")],
       [k |-> "billing_entity_uuid", v |-> Str("01H8X7Y7Z7QWERTYUIOPASDFGX")],
       [k |-> "billing_date", v |-> Str("2023-10-27")],
       [k |-> "fee_category", v |-> Str("RECURRING")],
       [k |-> "fee_code", v |-> Str("MONTHLY_FEE")],
       [k |-> "currency", v |-> Str("USD")],
       [k |-> "total_period_units", v |-> Str("1.0000")],
       [k |-> "abs_period_units", v |-> Str("1.0000")],
       [k |-> "total_basis_amount", v |-> Str("29.990")],
       [k |-> "abs_basis_amount", v |-> Str("29.990")],
       [k |-> "total_fee_amount", v |-> Str("29.990")],
       [k |-> "fee_rate_uuid", v |-> Str("01H8X7Y7Z7QWERTYUIOPASDFGY")],
       [k |-> "request_uuid", v |-> Str("01H8X7Y7Z7QWERTYUIOPASDFGZ")],
       [k |-> "invoice_info_uuid", v |-> Str("01H8X7Y7Z7QWERTYUIOPASDFG1")],
       [k |-> "fee_code_ledger_account_uuid", v |-> Str("01H8X7Y7Z7QWERTYUIOPASDFG2")],
       [k |-> "credit_ledger_account_uuid", v |-> Str("01H8X7Y7Z7QWERTYUIOPASDFG3")],
       [k |-> "debit_ledger_account_uuid", v |-> Str("01H8X7Y7Z7QWERTYUIOPASDFG4")],
       [k |-> "exclude_from_invoice", v |-> Integer(0)],
       [k |-> "created_timestamp", v |-> Str("2023-10-27T10:00:00.123456")],
       [k |-> "modified_timestamp", v |-> Str("2023-10-27T10:00:00.123456")] >>,
   main |-> <<"----begin example: fee-summary----", "----begin minmal example: fee-summary----", "----end: fee-summary----">>]

\* FeeTax: src/src/demo/models/ebb/fee_tax.py
FeeTax ==
  [name |-> "FeeTax", table |-> "fee_tax",
   fields |-> <<
     Field("id", "int", FALSE, Required, [gt |-> 0]),
     Field("uuid", "str", FALSE, Required, [max_length |-> 26]),
     Field("fee_summary_uuid", "str", FALSE, Required, [max_length |-> 26]),
     Field("tax1_amount", "decimal", TRUE, None, [max_digits |-> 12, decimal_places |-> 3]),
     Field("tax2_amount", "decimal", TRUE, None, [max_digits |-> 12, decimal_places |-> 3]),
     Field("tax3_amount", "decimal", TRUE, None, [max_digits |-> 12, decimal_places |-> 3]),
     Field("tax4_amount", "decimal", TRUE, None, [max_digits |-> 12, decimal_places |-> 3]),
     Field("tax1_rate", "decimal", TRUE, None, [max_digits |-> 7, decimal_places |-> 4]),
     Field("tax2_rate", "decimal", TRUE, None, [max_digits |-> 7, decimal_places |-> 4]),
     Field("tax3_rate", "decimal", TRUE, None, [max_digits |-> 7, decimal_places |-> 4]),
     Field("tax4_rate", "decimal", TRUE, None, [max_digits |-> 7, decimal_places |-> 4]),
     Field("created_timestamp", "datetime", FALSE, Required, [any |-> TRUE]) >>,
   MINIMAL_FIELDS |-> {"tax1_amount", "tax2_amount", "tax1_rate", "tax2_rate"},
   to_minimal_dict |-> "json",
   example |-> <<
       [k |-> "id", v |-> Integer(1)],
       [k |-> "uuid", v |-> Str("01H8X7Y7Z7QWERTYUIOPASDFGH")],
       [k |-> "fee_summary_uuid", v |-> Str("01H8X7Y7Z7QWERTYUIOPASDFGX")],
       [k |-> "tax1_amount", v |-> Str("2.400")],
       [k |-> "tax2_amount", v |-> Str("1.800")],
       [k |-> "tax3_amount", v |-> None],
       [k |-> "tax4_amount", v |-> None],
       [k |-> "tax1_rate", v |-> Str("0.0800")],
       [k |-> "tax2_rate", v |-> Str("0.0600")],
       [k |-> "tax3_rate", v |-> None],
       [k |-> "tax4_rate", v |-> None],
       [k |-> "created_timestamp", v |-> Str("2023-10-27T10:00:00.123456")] >>,
   main |-> <<"----begin example: fee-tax----", "----begin minmal example: fee-tax----", "----end: fee-tax----">>]

\* FeeYtd: src/src/demo/models/ebb/fee_ytd.py
FeeYtd ==
  [name |-> "FeeYtd", table |-> "fee_ytd",
   fields |-> <<
     Field("id", "int", FALSE, Required, [gt |-> 0]),
     Field("uuid", "str", FALSE, Required, [max_length |-> 26]),
     Field("billing_entity_uuid", "str", FALSE, Required, [max_length |-> 26]),
     Field("year", "int", FALSE, Required, [any |-> TRUE]),
     Field("fee_category", "str", FALSE, Required, [max_length |-> 25]),
     Field("fee_code", "str", FALSE, Required, [max_length |-> 25]),
     Field("currency", "str", FALSE, Required, [max_length |-> 3]),
     Field("total_period_units", "decimal", FALSE, Required, [max_digits |-> 12, decimal_places |-> 4]),
     Field("total_basis_amount", "decimal", FALSE, Required, [max_digits |-> 12, decimal_places |-> 3]),
     Field("total_fee_amount", "decimal", FALSE, Required, [max_digits |-> 12, decimal_places |-> 3]),
     Field("created_timestamp", "datetime", FALSE, Required, [any |-> TRUE]),
     Field("modified_timestamp", "datetime", FALSE, Required, [any |-> TRUE]) >>,
   MINIMAL_FIELDS |-> {"year", "fee_category", "fee_code", "currency", "total_period_units", "total_fee_amount"},
   to_minimal_dict |-> "json",
   example |-> <<
       [k |-> "id", v |-> Integer(1)],
       [k |-> "uuid", v |-> Str("01H8X7Y7Z7QWERTYUIOPASDFGH")],
       [k |-> "billing_entity_uuid", v |-> Str("01H8X7Y7Z7QWERTYUIOPASDFGX")],
       [k |-> "year", v |-> Integer(2023)],
       [k |-> "fee_category", v |-> Str("RECURRING")],
       [k |-> "fee_code", v |-> Str("MONTHLY_FEE")],
       [k |-> "currency", v |-> Str("USD")],
       [k |-> "total_period_units", v |-> Str("12.0000")],
       [k |-> "total_basis_amount", v |-> Str("359.880")],
       [k |-> "total_fee_amount", v |-> Str("359.880")],
       [k |-> "created_timestamp", v |-> Str("2023-10-27T10:00:00.123456")],
       [k |-> "modified_timestamp", v |-> Str("2023-10-27T10:00:00.123456")] >>,
   main |-> <<"----begin example: fee-ytd----", "----begin minmal example: fee-ytd----", "----end: fee-ytd----">>]

\* FlywaySchemaHistory: src/src/demo/models/ebb/flyway_schema_history.py
FlywaySchemaHistory ==
  [name |-> "FlywaySchemaHistory", table |-> "flyway_schema_history",
   fields |-> <<
     Field("installed_rank", "int", FALSE, Required, [any |-> TRUE]),
     Field("version", "str", TRUE, None, [max_length |-> 50]),
     Field("description", "str", FALSE, Required, [max_length |-> 200]),
     Field("type", "str", FALSE, Required, [max_length |-> 20]),
     Field("script", "str", FALSE, Required, [max_length |-> 1000]),
     Field("checksum", "int", TRUE, None, [any |-> TRUE]),
     Field("installed_by", "str", FALSE, Required, [max_length |-> 100]),
     Field("installed_on", "datetime", FALSE, Required, [any |-> TRUE]),
     Field("execution_time", "int", FALSE, Required, [any |-> TRUE]),
     Field("success", "bool", FALSE, Required, [any |-> TRUE]) >>,
   MINIMAL_FIELDS |-> {"version", "description", "type", "installed_on", "success"},
   to_minimal_dict |-> "json",
   example |-> <<
       [k |-> "installed_rank", v |-> Integer(1)],
       [k |-> "version", v |-> Str("1.0.0")],
       [k |-> "description", v |-> Str("Create initial billing tables")],
       [k |-> "type", v |-> Str("SQL")],
       [k |-> "script", v |-> Str("V1_0_0__Create_initial_billing_tables.sql")],
       [k |-> "checksum", v |-> Integer(123456789)],
       [k |-> "installed_by", v |-> Str("flyway_user")],
       [k |-> "installed_on", v |-> Str("2023-10-27T10:00:00.123456")],
       [k |-> "execution_time", v |-> Integer(2500)],
       [k |-> "success", v |-> Bool(TRUE)] >>,
   main |-> <<"----begin example: flyway-schema-history----", "----begin minmal example: flyway-schema-history----", "----end: flyway-schema-history----">>]

\* InvoiceAllianceCode: src/src/demo/models/ebb/invoice_alliance_code.py
InvoiceAllianceCode ==
  [name |-> "InvoiceAllianceCode", table |-> "invoice_alliance_code",
   fields |-> <<
     Field("id", "int", FALSE, Required, [gt |-> 0]),
     Field("uuid", "str", FALSE, Required, [max_length |-> 26]),
     Field("billing_entity_uuid", "str", FALSE, Required, [max_length |-> 26]),
     Field("alliance_code", "str", FALSE, Required, [max_length |-> 3]),
     Field("invoice_count", "int", FALSE, Required, [gt |-> 0]),
     Field("created_timestamp", "datetime", FALSE, Required, [any |-> TRUE]) >>,
   MINIMAL_FIELDS |-> {"alliance_code", "invoice_count"},
   to_minimal_dict |-> "json",
   example |-> <<
       [k |-> "id", v |-> Integer(1)],
       [k |-> "uuid", v |-> Str("01H8X7Y7Z7QWERTYUIOPASDFGH")],
       [k |-> "billing_entity_uuid", v |-> Str("01H8X7Y7Z7QWERTYUIOPASDFGX")],
       [k |-> "alliance_code", v |-> Str("VZW")],
       [k |-> "invoice_count", v |-> Integer(1001)],
       [k |-> "created_timestamp", v |-> Str("2023-10-27T10:00:00.123456")] >>,
   main |-> <<"----begin example: invoice-alliance-code----", "----begin minmal example: invoice-alliance-code----", "----end: invoice-alliance-code----">>]

\* InvoiceInfoAmount: src/src/demo/models/ebb/invoice_info_amount.py
InvoiceInfoAmount ==
  [name |-> "InvoiceInfoAmount", table |-> "invoice_info_amount",
   fields |-> <<
     Field("id", "int", FALSE, Required, [gt |-> 0]),
     Field("uuid", "str", FALSE, Required, [max_length |-> 26]),
     Field("invoice_info_uuid", "str", FALSE, Required, [max_length |-> 26]),
     Field("currency", "str", FALSE, Required, [max_length |-> 3]),
     Field("amount", "decimal", FALSE, Required, [max_digits |-> 12, decimal_places |-> 3]),
     Field("fee_category_group", "str", FALSE, Required, [max_length |-> 25]),
     Field("created_timestamp", "datetime", FALSE, Required, [any |-> TRUE]) >>,
   MINIMAL_FIELDS |-> {"currency", "amount", "fee_category_group"},
   to_minimal_dict |-> "json",
   example |-> <<
       [k |-> "id", v |-> Integer(1)],
       [k |-> "uuid", v |-> Str("01H8X7Y7Z7QWERTYUIOPASDFGH")],
       [k |-> "invoice_info_uuid", v |-> Str("01H8X7Y7Z7QWERTYUIOPASDFGX")],
       [k |-> "currency", v |-> Str("USD")],
       [k |-> "amount", v |-> Str("29.990")],
       [k |-> "fee_category_group", v |-> Str("RECURRING_FEES")],
       [k |-> "created_timestamp", v |-> Str("2023-10-27T10:00:00.123456")] >>,
   main |-> <<"----begin example: invoice-info-amount----", "----begin minmal example: invoice-info-amount----", "----end: invoice-info-amount----">>]

\* InvoiceInfoMutation: src/src/demo/models/ebb/invoice_info_mutation.py
InvoiceInfoMutation ==
  [name |-> "InvoiceInfoMutation", table |-> "invoice_info_mutation",
   fields |-> <<
     Field("id", "int", FALSE, Required, [gt |-> 0]),
     Field("mutation_action", "enum", FALSE, Required, [cls |-> "MutationAction", vals |-> {"UPDATE", "DELETE"}]),
     Field("mutation_timestamp", "datetime", FALSE, Required, [any |-> TRUE]),
     Field("invoice_info_id", "int", FALSE, Required, [gt |-> 0]),
     Field("uuid", "str", FALSE, Required, [max_length |-> 26]),
     Field("billing_entity_uuid", "str", TRUE, None, [max_length |-> 26]),
     Field("entity_uuid", "str", TRUE, None, [max_length |-> 13]),
     Field("alternate_id", "str", TRUE, None, [max_length |-> 25]),
     Field("billing_date", "date", TRUE, None, [any |-> TRUE]),
     Field("invoice_num", "str", TRUE, None, [max_length |-> 30]),
     Field("currency", "str", TRUE, None, [max_length |-> 3]),
     Field("total_amount", "decimal", TRUE, None, [max_digits |-> 12, decimal_places |-> 3]),
     Field("document_uuid", "str", TRUE, None, [max_length |-> 26]),
     Field("request_uuid", "str", TRUE, None, [max_length |-> 26]),
     Field("created_timestamp", "datetime", TRUE, None, [any |-> TRUE]) >>,
   MINIMAL_FIELDS |-> {"mutation_action", "billing_date", "invoice_num", "currency", "total_amount"},
   to_minimal_dict |-> "json",
   example |-> <<
       [k |-> "id", v |-> Integer(1)],
       [k |-> "mutation_action", v |-> Str("UPDATE")],
       [k |-> "mutation_timestamp", v |-> Str("2023-10-27T11:00:00.123456")],
       [k |-> "invoice_info_id", v |-> Integer(42)],
       [k |-> "uuid", v |-> Str("01H8X7Y7Z7QWERTYUIOPASDFGH")],
       [k |-> "billing_entity_uuid", v |-> Str("01H8X7Y7Z7QWERTYUIOPASDFGX")],
       [k |-> "entity_uuid", v |-> Str("01H8X7Y7Z7Q12")],
       [k |-> "alternate_id", v |-> Str("CUST-12345")],
       [k |-> "billing_date", v |-> Str("2023-10-27")],
       [k |-> "invoice_num", v |-> Str("INV-2023-10-001")],
       [k |-> "currency", v |-> Str("USD")],
       [k |-> "total_amount", v |-> Str("149.95")],
       [k |-> "document_uuid", v |-> Str("01H8X7Y7Z7QWERTYUIOPASDFGY")],
       [k |-> "request_uuid", v |-> Str("01H8X7Y7Z7QWERTYUIOPASDFGZ")],
       [k |-> "created_timestamp", v |-> Str("2023-10-27T10:00:00.123456")] >>,
   main |-> <<"----begin example: invoice-info-mutation----", "----begin minmal example: invoice-info-mutation----", "----end: invoice-info-mutation----">>]

\* InvoiceInfoSettlement: src/src/demo/models/ebb/invoice_info_settlement.py
InvoiceInfoSettlement ==
  [name |-> "InvoiceInfoSettlement", table |-> "invoice_info_settlement",
   fields |-> <<
     Field("id", "int", FALSE, Required, [gt |-> 0]),
     Field("uuid", "str", FALSE, Required, [max_length |-> 26]),
     Field("invoice_info_uuid", "str", FALSE, Required, [max_length |-> 26]),
     Field("settlement_uuid", "str", FALSE, Required, [max_length |-> 26]),
     Field("request_uuid", "str", FALSE, Required, [max_length |-> 26]),
     Field("created_timestamp", "datetime", FALSE, Required, [any |-> TRUE]) >>,
   MINIMAL_FIELDS |-> {"created_timestamp"},
   to_minimal_dict |-> "json",
   example |-> <<
       [k |-> "id", v |-> Integer(1)],
       [k |-> "uuid", v |-> Str("01H8X7Y7Z7QWERTYUIOPASDFGH")],
       [k |-> "invoice_info_uuid", v |-> Str("01H8X7Y7Z7QWERTYUIOPASDFGX")],
       [k |-> "settlement_uuid", v |-> Str("01H8X7Y7Z7QWERTYUIOPASDFGY")],
       [k |-> "request_uuid", v |-> Str("01H8X7Y7Z7QWERTYUIOPASDFGZ")],
       [k |-> "created_timestamp", v |-> Str("2023-10-27T10:00:00.123456")] >>,
   main |-> <<"----begin example: invoice-info-settlement----", "----begin minmal example: invoice-info-settlement----", "----end: invoice-info-settlement----">>]

\* InvoiceInfoSettlementMutation: src/src/demo/models/ebb/invoice_info_settlement_mutation.py
InvoiceInfoSettlementMutation ==
  [name |-> "InvoiceInfoSettlementMutation", table |-> "invoice_info_settlement_mutation",
   fields |-> <<
     Field("id", "int", FALSE, Required, [gt |-> 0]),
     Field("mutation_action", "enum", FALSE, Required, [cls |-> "MutationAction", vals |-> {"UPDATE", "DELETE"}]),
     Field("mutation_timestamp", "datetime", FALSE, Required, [any |-> TRUE]),
     Field("invoice_info_settlement_id", "int", FALSE, Required, [gt |-> 0]),
     Field("uuid", "str", FALSE, Required, [max_length |-> 26]),
     Field("invoice_info_uuid", "str", TRUE, None, [max_length |-> 26]),
     Field("settlement_uuid", "str", TRUE, None, [max_length |-> 26]),
     Field("request_uuid", "str", TRUE, None, [max_length |-> 26]),
     Field("created_timestamp", "datetime", TRUE, None, [any |-> TRUE]) >>,
   MINIMAL_FIELDS |-> {"mutation_action", "mutation_timestamp"},
   to_minimal_dict |-> "json",
   example |-> <<
       [k |-> "id", v |-> Integer(1)],
       [k |-> "mutation_action", v |-> Str("UPDATE")],
       [k |-> "mutation_timestamp", v |-> Str("2023-10-27T11:00:00.123456")],
       [k |-> "invoice_info_settlement_id", v |-> Integer(42)],
       [k |-> "uuid", v |-> Str("01H8X7Y7Z7QWERTYUIOPASDFGH")],
       [k |-> "invoice_info_uuid", v |-> Str("01H8X7Y7Z7QWERTYUIOPASDFGX")],
       [k |-> "settlement_uuid", v |-> Str("01H8X7Y7Z7QWERTYUIOPASDFGY")],
       [k |-> "request_uuid", v |-> Str("01H8X7Y7Z7QWERTYUIOPASDFGZ")],
       [k |-> "created_timestamp", v |-> Str("2023-10-27T10:00:00.123456")] >>,
   main |-> <<"----begin example: invoice-info-settlement-mutation----", "----begin minmal example: invoice-info-settlement-mutation----", "----end: invoice-info-settlement-mutation----">>]

\* JobAssassinationContract with the primary key among its MINIMAL_FIELDS.
JobAssassinationContract_minimal_id ==
  [name |-> "JobAssassinationContract", table |-> "job_assassination_contract",
   fields |-> <<
     Field("id", "int", FALSE, Required, [gt |-> 0]),
     Field("job_identifier", "str", FALSE, Required, [max_length |-> 50]),
     Field("killed", "int", FALSE, Integer(0), [ge |-> 0]),
     Field("created_timestamp", "datetime", FALSE, Required, [any |-> TRUE]),
     Field("modified_timestamp", "datetime", FALSE, Required, [any |-> TRUE]) >>,
   MINIMAL_FIELDS |-> {"id", "job_identifier", "killed", "created_timestamp"},
   to_minimal_dict |-> "json",
   example |-> <<
       [k |-> "id", v |-> Integer(1)],
       [k |-> "job_identifier", v |-> Str("BILLING_JOB_01H8X7Y7Z7QWER")],
       [k |-> "killed", v |-> Integer(0)],
       [k |-> "created_timestamp", v |-> Str("2023-10-27T10:00:00.123456")],
       [k |-> "modified_timestamp", v |-> Str("2023-10-27T10:00:00.123456")] >>,
   main |-> <<"----begin example: job-assassination-contract----", "----begin minmal example: job-assassination-contract----", "----end: job-assassination-contract----">>]

\* JobAssassinationContract: src/src/demo/models/ebb/job_assassination_contract.py
JobAssassinationContract ==
  [name |-> "JobAssassinationContract", table |-> "job_assassination_contract",
   fields |-> <<
     Field("id", "int", FALSE, Required, [gt |-> 0]),
     Field("job_identifier", "str", FALSE, Required, [max_length |-> 50]),
     Field("killed", "int", FALSE, Integer(0), [ge |-> 0]),
     Field("created_timestamp", "datetime", FALSE, Required, [any |-> TRUE]),
     Field("modified_timestamp", "datetime", FALSE, Required, [any |-> TRUE]) >>,
   MINIMAL_FIELDS |-> {"job_identifier", "killed", "created_timestamp"},
   to_minimal_dict |-> "json",
   example |-> <<
       [k |-> "id", v |-> Integer(1)],
       [k |-> "job_identifier", v |-> Str("BILLING_JOB_01H8X7Y7Z7QWER")],
       [k |-> "killed", v |-> Integer(0)],
       [k |-> "created_timestamp", v |-> Str("2023-10-27T10:00:00.123456")],
       [k |-> "modified_timestamp", v |-> Str("2023-10-27T10:00:00.123456")] >>,
   main |-> <<"----begin example: job-assassination-contract----", "----begin minmal example: job-assassination-contract----", "----end: job-assassination-contract----">>]

\* LedgerAccount: src/src/demo/models/ebb/ledger_account.py
LedgerAccount ==
  [name |-> "LedgerAccount", table |-> "ledger_account",
   fields |-> <<
     Field("id", "int", FALSE, Required, [gt |-> 0]),
     Field("uuid", "str", FALSE, Required, [max_length |-> 26]),
     Field("ledger_account_key", "str", FALSE, Required, [max_length |-> 32]),
     Field("billing_entity_uuid", "str", FALSE, Required, [max_length |-> 26]),
     Field("gl_code", "str", TRUE, None, [max_length |-> 40]),
     Field("created_timestamp", "datetime", FALSE, Required, [any |-> TRUE]),
     Field("modified_timestamp", "datetime", FALSE, Required, [any |-> TRUE]) >>,
   MINIMAL_FIELDS |-> {"ledger_account_key", "gl_code"},
   to_minimal_dict |-> "json",
   example |-> <<
       [k |-> "id", v |-> Integer(1)],
       [k |-> "uuid", v |-> Str("01H8X7Y7Z7QWERTYUIOPASDFGH")],
       [k |-> "ledger_account_key", v |-> Str("REVENUE_RECURRING")],
       [k |-> "billing_entity_uuid", v |-> Str("01H8X7Y7Z7QWERTYUIOPASDFGX")],
       [k |-> "gl_code", v |-> Str("4000-001")],
       [k |-> "created_timestamp", v |-> Str("2023-10-27T10:00:00.123456")],
       [k |-> "modified_timestamp", v |-> Str("2023-10-27T10:00:00.123456")] >>,
   main |-> <<"----begin example: ledger-account----", "----begin minmal example: ledger-account----", "----end: ledger-account----">>]

\* LedgerAccountAction: src/src/demo/models/ebb/ledger_account_action.py
LedgerAccountAction ==
  [name |-> "LedgerAccountAction", table |-> "ledger_account_action",
   fields |-> <<
     Field("id", "int", FALSE, Required, [gt |-> 0]),
     Field("uuid", "str", FALSE, Required, [max_length |-> 26]),
     Field("action", "str", FALSE, Required, [max_length |-> 25]),
     Field("created_timestamp", "datetime", FALSE, Required, [any |-> TRUE]) >>,
   MINIMAL_FIELDS |-> {"action"},
   to_minimal_dict |-> "json",
   example |-> <<
       [k |-> "id", v |-> Integer(1)],
       [k |-> "uuid", v |-> Str("01H8X7Y7Z7QWERTYUIOPASDFGH")],
       [k |-> "action", v |-> Str("DEBIT")],
       [k |-> "created_timestamp", v |-> Str("2023-10-27T10:00:00.123456")] >>,
   main |-> <<"----begin example: ledger-account-action----", "----begin minmal example: ledger-account-action----", "----end: ledger-account-action----">>]

\* LedgerAccountBalance: src/src/demo/models/ebb/ledger_account_balance.py
LedgerAccountBalance ==
  [name |-> "LedgerAccountBalance", table |-> "ledger_account_balance",
   fields |-> <<
     Field("id", "int", FALSE, Required, [gt |-> 0]),
     Field("uuid", "str", FALSE, Required, [max_length |-> 26]),
     Field("ledger_account_uuid", "str", FALSE, Required, [max_length |-> 26]),
     Field("currency", "str", FALSE, Required, [max_length |-> 3]),
     Field("balance", "decimal", FALSE, Required, [max_digits |-> 12, decimal_places |-> 3]),
     Field("created_timestamp", "datetime", FALSE, Required, [any |-> TRUE]),
     Field("modified_timestamp", "datetime", FALSE, Required, [any |-> TRUE]) >>,
   MINIMAL_FIELDS |-> {"currency", "balance"},
   to_minimal_dict |-> "json",
   example |-> <<
       [k |-> "id", v |-> Integer(1)],
       [k |-> "uuid", v |-> Str("01H8X7Y7Z7QWERTYUIOPASDFGH")],
       [k |-> "ledger_account_uuid", v |-> Str("01H8X7Y7Z7QWERTYUIOPASDFGX")],
       [k |-> "currency", v |-> Str("USD")],
       [k |-> "balance", v |-> Str("1250.750")],
       [k |-> "created_timestamp", v |-> Str("2023-10-27T10:00:00.123456")],
       [k |-> "modified_timestamp", v |-> Str("2023-10-27T10:00:00.123456")] >>,
   main |-> <<"----begin example: ledger-account-balance----", "----begin minmal example: ledger-account-balance----", "----end: ledger-account-balance----">>]

\* LedgerAccountKey: src/src/demo/models/ebb/ledger_account_key.py
LedgerAccountKey ==
  [name |-> "LedgerAccountKey", table |-> "ledger_account_key",
   fields |-> <<
     Field("id", "int", FALSE, Required, [gt |-> 0]),
     Field("uuid", "str", FALSE, Required, [max_length |-> 26]),
     Field("ledger_account_key", "str", FALSE, Required, [max_length |-> 32]),
     Field("ledger_account_type", "str", FALSE, Required, [max_length |-> 20]),
     Field("default_gl_code", "str", TRUE, None, [max_length |-> 40]),
     Field("short_desc", "str", FALSE, Required, [max_length |-> 40]),
     Field("full_desc", "str", TRUE, None, [max_length |-> 255]),
     Field("created_timestamp", "datetime", FALSE, Required, [any |-> TRUE]),
     Field("modified_timestamp", "datetime", FALSE, Required, [any |-> TRUE]) >>,
   MINIMAL_FIELDS |-> {"ledger_account_key", "ledger_account_type", "short_desc"},
   to_minimal_dict |-> "json",
   example |-> <<
       [k |-> "id", v |-> Integer(1)],
       [k |-> "uuid", v |-> Str("01H8X7Y7Z7QWERTYUIOPASDFGH")],
       [k |-> "ledger_account_key", v |-> Str("REVENUE_SUBSCRIPTION_MONTHLY")],
       [k |-> "ledger_account_type", v |-> Str("REVENUE")],
       [k |-> "default_gl_code", v |-> Str("4001-001")],
       [k |-> "short_desc", v |-> Str("Monthly Subscription Revenue")],
       [k |-> "full_desc", v |-> Str("Revenue from monthly subscription fees charged to customers")],
       [k |-> "created_timestamp", v |-> Str("2023-10-27T10:00:00.123456")],
       [k |-> "modified_timestamp", v |-> Str("2023-10-27T10:00:00.123456")] >>,
   main |-> <<"----begin example: ledger-account-key----", "----begin minmal example: ledger-account-key----", "----end: ledger-account-key----">>]

\* LedgerAccountKeyPurpose: src/src/demo/models/ebb/ledger_account_key_purpose.py
LedgerAccountKeyPurpose ==
  [name |-> "LedgerAccountKeyPurpose", table |-> "ledger_account_key_purpose",
   fields |-> <<
     Field("id", "int", FALSE, Required, [gt |-> 0]),
     Field("uuid", "str", FALSE, Required, [max_length |-> 26]),
     Field("purpose", "str", FALSE, Required, [max_length |-> 25]),
     Field("ledger_account_key", "str", FALSE, Required, [max_length |-> 32]),
     Field("created_timestamp", "datetime", FALSE, Required, [any |-> TRUE]),
     Field("audit_id", "str", TRUE, None, [max_length |-> 26]) >>,
   MINIMAL_FIELDS |-> {"purpose", "ledger_account_key"},
   to_minimal_dict |-> "json",
   example |-> <<
       [k |-> "id", v |-> Integer(1)],
       [k |-> "uuid", v |-> Str("01H8X7Y7Z7QWERTYUIOPASDFGH")],
       [k |-> "purpose", v |-> Str("SUBSCRIPTION_BILLING")],
       [k |-> "ledger_account_key", v |-> Str("REVENUE_SUBSCRIPTION_MONTHLY")],
       [k |-> "created_timestamp", v |-> Str("2023-10-27T10:00:00.123456")],
       [k |-> "audit_id", v |-> Str("01H8X7Y7Z7QWERTYUIOPASDFGX")] >>,
   main |-> <<"----begin example: ledger-account-key-purpose----", "----begin minmal example: ledger-account-key-purpose----", "----end: ledger-account-key-purpose----">>]

\* LedgerAccountPurpose: src/src/demo/models/ebb/ledger_account_purpose.py
LedgerAccountPurpose ==
  [name |-> "LedgerAccountPurpose", table |-> "ledger_account_purpose",
   fields |-> <<
     Field("id", "int", FALSE, Required, [gt |-> 0]),
     Field("uuid", "str", FALSE, Required, [max_length |-> 26]),
     Field("purpose", "str", FALSE, Required, [max_length |-> 25]),
     Field("created_timestamp", "datetime", FALSE, Required, [any |-> TRUE]) >>,
   MINIMAL_FIELDS |-> {"purpose"},
   to_minimal_dict |-> "json",
   example |-> <<
       [k |-> "id", v |-> Integer(1)],
       [k |-> "uuid", v |-> Str("01H8X7Y7Z7QWERTYUIOPASDFGH")],
       [k |-> "purpose", v |-> Str("SUBSCRIPTION_BILLING")],
       [k |-> "created_timestamp", v |-> Str("2023-10-27T10:00:00.123456")] >>,
   main |-> <<"----begin example: ledger-account-purpose----", "----begin minmal example: ledger-account-purpose----", "----end: ledger-account-purpose----">>]

\* LedgerAccountSettlement: src/src/demo/models/ebb/ledger_account_settlement.py
LedgerAccountSettlement ==
  [name |-> "LedgerAccountSettlement", table |-> "ledger_account_settlement",
   fields |-> <<
     Field("id", "int", FALSE, Required, [gt |-> 0]),
     Field("uuid", "str", FALSE, Required, [max_length |-> 26]),
     Field("ledger_account_key", "str", FALSE, Required, [max_length |-> 32]),
     Field("effective_date", "date", FALSE, Required, [any |-> TRUE]),
     Field("settlement_item_code", "str", TRUE, None, [max_length |-> 30]),
     Field("settlement_desc", "str", TRUE, None, [max_length |-> 100]),
     Field("fee_category_group", "str", TRUE, None, [max_length |-> 25]),
     Field("revenue_group", "str", TRUE, None, [max_length |-> 25]),
     Field("merchant_plan_uuid", "str", TRUE, None, [max_length |-> 13]),
     Field("developer_uuid", "str", TRUE, None, [max_length |-> 13]),
     Field("developer_app_uuid", "str", TRUE, None, [max_length |-> 13]),
     Field("app_subscription_uuid", "str", TRUE, None, [max_length |-> 13]),
     Field("app_metered_uuid", "str", TRUE, None, [max_length |-> 13]),
     Field("created_timestamp", "datetime", FALSE, Required, [any |-> TRUE]),
     Field("modified_timestamp", "datetime", FALSE, Required, [any |-> TRUE]),
     Field("audit_id", "str", TRUE, None, [max_length |-> 26]) >>,
   MINIMAL_FIELDS |-> {"ledger_account_key", "effective_date", "settlement_item_code", "settlement_desc"},
   to_minimal_dict |-> "json",
   example |-> <<
       [k |-> "id", v |-> Integer(1)],
       [k |-> "uuid", v |-> Str("01H8X7Y7Z7QWERTYUIOPASDFGH")],
       [k |-> "ledger_account_key", v |-> Str("REVENUE_SUBSCRIPTION_MONTHLY")],
       [k |-> "effective_date", v |-> Str("2023-10-27")],
       [k |-> "settlement_item_code", v |-> Str("SUBS_MONTHLY_001")],
       [k |-> "settlement_desc", v |-> Str("Monthly subscription settlement for premium plan")],
       [k |-> "fee_category_group", v |-> Str("SUBSCRIPTION")],
       [k |-> "revenue_group", v |-> Str("PREMIUM")],
       [k |-> "merchant_plan_uuid", v |-> Str("01H8X7Y7Z7Q12")],
       [k |-> "developer_uuid", v |-> Str("01H8X7Y7Z7Q13")],
       [k |-> "developer_app_uuid", v |-> Str("01H8X7Y7Z7Q14")],
       [k |-> "app_subscription_uuid", v |-> Str("01H8X7Y7Z7Q15")],
       [k |-> "app_metered_uuid", v |-> None],
       [k |-> "created_timestamp", v |-> Str("2023-10-27T10:00:00.123456")],
       [k |-> "modified_timestamp", v |-> Str("2023-10-27T10:00:00.123456")],
       [k |-> "audit_id", v |-> Str("01H8X7Y7Z7QWERTYUIOPASDFGX")] >>,
   main |-> <<"----begin example: ledger-account-settlement----", "----begin minmal example: ledger-account-settlement----", "----end: ledger-account-settlement----">>]

\* LedgerAccountTransition: src/src/demo/models/ebb/ledger_account_transition.py
LedgerAccountTransition ==
  [name |-> "LedgerAccountTransition", table |-> "ledger_account_transition",
   fields |-> <<
     Field("id", "int", FALSE, Required, [gt |-> 0]),
     Field("uuid", "str", FALSE, Required, [max_length |-> 26]),
     Field("action", "str", FALSE, Required, [max_length |-> 25]),
     Field("effective_date", "date", FALSE, Required, [any |-> TRUE]),
     Field("lookup_ledger_account_key", "str", FALSE, Required, [max_length |-> 32]),
     Field("credit_ledger_account_key", "str", FALSE, Required, [max_length |-> 32]),
     Field("credit_billing_entity_uuid_source", "str", FALSE, Required, [max_length |-> 20]),
     Field("debit_ledger_account_key", "str", FALSE, Required, [max_length |-> 32]),
     Field("debit_billing_entity_uuid_source", "str", FALSE, Required, [max_length |-> 20]),
     Field("deleted_date", "date", TRUE, None, [any |-> TRUE]),
     Field("created_timestamp", "datetime", FALSE, Required, [any |-> TRUE]),
     Field("modified_timestamp", "datetime", FALSE, Required, [any |-> TRUE]),
     Field("audit_id", "str", TRUE, None, [max_length |-> 26]) >>,
   MINIMAL_FIELDS |-> {"action", "effective_date", "credit_ledger_account_key", "debit_ledger_account_key"},
   to_minimal_dict |-> "json",
   example |-> <<
       [k |-> "id", v |-> Integer(1)],
       [k |-> "uuid", v |-> Str("01H8X7Y7Z7QWERTYUIOPASDFGH")],
       [k |-> "action", v |-> Str("SUBSCRIPTION_CHARGE")],
       [k |-> "effective_date", v |-> Str("2023-10-27")],
       [k |-> "lookup_ledger_account_key", v |-> Str("REVENUE_SUBSCRIPTION_MONTHLY")],
       [k |-> "credit_ledger_account_key", v |-> Str("REVENUE_SUBSCRIPTION_MONTHLY")],
       [k |-> "credit_billing_entity_uuid_source", v |-> Str("TRANSACTION")],
       [k |-> "debit_ledger_account_key", v |-> Str("ACCOUNTS_RECEIVABLE")],
       [k |-> "debit_billing_entity_uuid_source", v |-> Str("CLOVER")],
       [k |-> "deleted_date", v |-> None],
       [k |-> "created_timestamp", v |-> Str("2023-10-27T10:00:00.123456")],
       [k |-> "modified_timestamp", v |-> Str("2023-10-27T10:00:00.123456")],
       [k |-> "audit_id", v |-> Str("01H8X7Y7Z7QWERTYUIOPASDFGX")] >>,
   main |-> <<"----begin example: ledger-account-transition----", "----begin minmal example: ledger-account-transition----", "----end: ledger-account-transition----">>]

\* LedgerJournal: src/src/demo/models/ebb/ledger_journal.py
LedgerJournal ==
  [name |-> "LedgerJournal", table |-> "ledger_journal",
   fields |-> <<
     Field("id", "int", FALSE, Required, [gt |-> 0]),
     Field("uuid", "str", FALSE, Required, [max_length |-> 26]),
     Field("ledger_account_uuid", "str", FALSE, Required, [max_length |-> 26]),
     Field("journal_date", "date", FALSE, Required, [any |-> TRUE]),
     Field("ref_uuid_type", "str", FALSE, Required, [max_length |-> 20]),
     Field("ref_uuid", "str", FALSE, Required, [max_length |-> 26]),
     Field("cr_db", "str", FALSE, Required, [max_length |-> 6]),
     Field("currency", "str", FALSE, Required, [max_length |-> 3]),
     Field("amount", "decimal", FALSE, Required, [max_digits |-> 12, decimal_places |-> 3]),
     Field("created_timestamp", "datetime", FALSE, Required, [any |-> TRUE]) >>,
   MINIMAL_FIELDS |-> {"journal_date", "cr_db", "currency", "amount"},
   to_minimal_dict |-> "json",
   example |-> <<
       [k |-> "id", v |-> Integer(1)],
       [k |-> "uuid", v |-> Str("01H8X7Y7Z7QWERTYUIOPASDFGH")],
       [k |-> "ledger_account_uuid", v |-> Str("01H8X7Y7Z7QWERTYUIOPASDFGX")],
       [k |-> "journal_date", v |-> Str("2023-10-27")],
       [k |-> "ref_uuid_type", v |-> Str("FEE_SUMMARY")],
       [k |-> "ref_uuid", v |-> Str("01H8X7Y7Z7QWERTYUIOPASDFGY")],
       [k |-> "cr_db", v |-> Str("CREDIT")],
       [k |-> "currency", v |-> Str("USD")],
       [k |-> "amount", v |-> Str("149.95")],
       [k |-> "created_timestamp", v |-> Str("2023-10-27T10:00:00.123456")] >>,
   main |-> <<"----begin example: ledger-journal----", "----begin minmal example: ledger-journal----", "----end: ledger-journal----">>]

\* LedgerJournalMutation: src/src/demo/models/ebb/ledger_journal_mutation.py
LedgerJournalMutation ==
  [name |-> "LedgerJournalMutation", table |-> "ledger_journal_mutation",
   fields |-> <<
     Field("id", "int", FALSE, Required, [gt |-> 0]),
     Field("mutation_action", "literal", FALSE, Required, [vals |-> {"UPDATE", "DELETE"}]),
     Field("mutation_timestamp", "datetime", FALSE, NowFactory, [any |-> TRUE]),
     Field("ledger_journal_id", "int", FALSE, Required, [gt |-> 0]),
     Field("uuid", "str", FALSE, Required, [max_length |-> 26]),
     Field("ledger_account_uuid", "str", TRUE, None, [max_length |-> 26]),
     Field("journal_date", "date", TRUE, None, [any |-> TRUE]),
     Field("ref_uuid_type", "literal", TRUE, None, [vals |-> {"FEE_SUMMARY", "SETTLE_EXPORT", "SETTLE_IMPORT", "FEE_TAX"}]),
     Field("ref_uuid", "str", TRUE, None, [max_length |-> 26]),
     Field("cr_db", "literal", TRUE, None, [vals |-> {"CREDIT", "DEBIT"}]),
     Field("currency", "str", TRUE, None, [max_length |-> 3]),
     Field("amount", "decimal", TRUE, None, [max_digits |-> 12, decimal_places |-> 3]),
     Field("created_timestamp", "datetime", TRUE, None, [any |-> TRUE]) >>,
   MINIMAL_FIELDS |-> {"mutation_action", "cr_db", "currency", "amount"},
   to_minimal_dict |-> "json",
   example |-> <<
       [k |-> "id", v |-> Integer(1)],
       [k |-> "mutation_action", v |-> Str("UPDATE")],
       [k |-> "mutation_timestamp", v |-> Str("2023-10-27T11:00:00.123456")],
       [k |-> "ledger_journal_id", v |-> Integer(123)],
       [k |-> "uuid", v |-> Str("01H8X7Y7Z7QWERTYUIOPASDFGH")],
       [k |-> "ledger_account_uuid", v |-> Str("01H8X7Y7Z7QWERTYUIOPASDFGZ")],
       [k |-> "journal_date", v |-> Str("2023-11-01")],
       [k |-> "ref_uuid_type", v |-> Str("FEE_SUMMARY")],
       [k |-> "ref_uuid", v |-> Str("01H8X7Y7Z7QWERTYUIOPASDFGA")],
       [k |-> "cr_db", v |-> Str("DEBIT")],
       [k |-> "currency", v |-> Str("USD")],
       [k |-> "amount", v |-> Str("99.990")],
       [k |-> "created_timestamp", v |-> Str("2023-10-27T10:00:00.123456")] >>,
   main |-> <<"----begin example: ledger-journal-mutation----", "----begin minmal example: ledger-journal-mutation----", "----end: ledger-journal-mutation----">>]

\* LexiAttribute: src/src/demo/models/ebb/lexi_attribute.py
LexiAttribute ==
  [name |-> "LexiAttribute", table |-> "lexi_attribute",
   fields |-> <<
     Field("id", "int", FALSE, Required, [gt |-> 0]),
     Field("uuid", "str", FALSE, Required, [max_length |-> 36]),
     Field("word", "str", FALSE, Required, [max_length |-> 512]),
     Field("lexicon", "str", FALSE, Required, [max_length |-> 128]),
     Field("attr_name", "str", FALSE, Required, [max_length |-> 128]),
     Field("created_timestamp", "datetime", FALSE, NowFactory, [any |-> TRUE]),
     Field("deleted_timestamp", "datetime", TRUE, None, [any |-> TRUE]) >>,
   MINIMAL_FIELDS |-> {"word", "lexicon", "attr_name"},
   to_minimal_dict |-> "json",
   example |-> <<
       [k |-> "id", v |-> Integer(1)],
       [k |-> "uuid", v |-> Str("01H8X7Y7-Z7QW-ERTY-UIOP-ASDFGHJKLZXC")],
       [k |-> "word", v |-> Str("premium_plan")],
       [k |-> "lexicon", v |-> Str("billing_terms")],
       [k |-> "attr_name", v |-> Str("plan_type")],
       [k |-> "created_timestamp", v |-> Str("2023-10-27T10:00:00.123456")],
       [k |-> "deleted_timestamp", v |-> None] >>,
   main |-> <<"----begin example: lexi-attribute----", "----begin minmal example: lexi-attribute----", "----end: lexi-attribute----">>]

\* LexiRule: src/src/demo/models/ebb/lexi_rule.py
LexiRule ==
  [name |-> "LexiRule", table |-> "lexi_rule",
   fields |-> <<
     Field("id", "int", FALSE, Required, [gt |-> 0]),
     Field("uuid", "str", FALSE, Required, [max_length |-> 36]),
     Field("parent_uuid", "str", TRUE, None, [max_length |-> 36]),
     Field("lexicon", "str", FALSE, Required, [max_length |-> 128]),
     Field("rule_name", "str", FALSE, Required, [max_length |-> 128]),
     Field("description", "str", TRUE, None, [max_length |-> 512]),
     Field("rule_condition", "str", TRUE, None, [max_length |-> 512]),
     Field("target_attributes", "str", TRUE, None, [max_length |-> 512]),
     Field("priority", "int", FALSE, Integer(1), [any |-> TRUE]),
     Field("rule_type", "literal", FALSE, Required, [vals |-> {"SIMPLE", "UNIT", "ACTIVATION", "CONDITIONAL"}]),
     Field("created_timestamp", "datetime", FALSE, NowFactory, [any |-> TRUE]),
     Field("deleted_timestamp", "datetime", TRUE, None, [any |-> TRUE]) >>,
   MINIMAL_FIELDS |-> {"lexicon", "rule_name", "priority", "rule_type"},
   to_minimal_dict |-> "json",
   example |-> <<
       [k |-> "id", v |-> Integer(1)],
       [k |-> "uuid", v |-> Str("01H8X7Y7-Z7QW-ERTY-UIOP-ASDFGHJKLZXC")],
       [k |-> "parent_uuid", v |-> None],
       [k |-> "lexicon", v |-> Str("billing_terms")],
       [k |-> "rule_name", v |-> Str("premium_discount")],
       [k |-> "description", v |-> Str("Apply discount for premium customers")],
       [k |-> "rule_condition", v |-> Str("plan_type == 'premium'")],
       [k |-> "target_attributes", v |-> Str("discount_rate")],
       [k |-> "priority", v |-> Integer(10)],
       [k |-> "rule_type", v |-> Str("CONDITIONAL")],
       [k |-> "created_timestamp", v |-> Str("2023-10-27T10:00:00.123456")],
       [k |-> "deleted_timestamp", v |-> None] >>,
   main |-> <<"----begin example: lexi-rule----", "----begin minmal example: lexi-rule----", "----end: lexi-rule----">>]

\* Look: src/src/demo/models/ebb/look.py
Look ==
  [name |-> "Look", table |-> "look",
   fields |-> <<
     Field("id", "int", FALSE, Required, [gt |-> 0]),
     Field("uuid", "str", FALSE, Required, [max_length |-> 32]),
     Field("hash", "str", FALSE, Required, [max_length |-> 64]),
     Field("namespace", "str", FALSE, Required, [max_length |-> 32]),
     Field("metadata", "str", TRUE, None, [max_length |-> 1024]),
     Field("processed_timestamp", "datetime", TRUE, None, [any |-> TRUE]),
     Field("created_timestamp", "datetime", FALSE, NowFactory, [any |-> TRUE]) >>,
   MINIMAL_FIELDS |-> {"hash", "namespace"},
   to_minimal_dict |-> "json",
   example |-> <<
       [k |-> "id", v |-> Integer(1)],
       [k |-> "uuid", v |-> Str("01H8X7Y7Z7QWERTYUIOPASDFGHJKLMNP")],
       [k |-> "hash", v |-> Str("a1b2c3d4e5f6789012345678901234567890abcdef1234567890abcdef123456")],
       [k |-> "namespace", v |-> Str("billing_data")],
       [k |-> "metadata", v |-> Str("{\"source\": \"merchant_api\", \"version\": \"1.0\"}")],
       [k |-> "processed_timestamp", v |-> Str("2023-10-27T10:30:00.123456")],
       [k |-> "created_timestamp", v |-> Str("2023-10-27T10:00:00.123456")] >>,
   main |-> <<"----begin example: look----", "----begin minmal example: look----", "----end: look----">>]

\* LookData: src/src/demo/models/ebb/look_data.py
LookData ==
  [name |-> "LookData", table |-> "look_data",
   fields |-> <<
     Field("id", "int", FALSE, Required, [gt |-> 0]),
     Field("look_uuid", "str", FALSE, Required, [max_length |-> 32]),
     Field("payload", "bytes", FALSE, Required, [any |-> TRUE]),
     Field("created_timestamp", "datetime", FALSE, NowFactory, [any |-> TRUE]) >>,
   MINIMAL_FIELDS |-> {"payload"},
   to_minimal_dict |-> "json",
   example |-> <<
       [k |-> "id", v |-> Integer(1)],
       [k |-> "look_uuid", v |-> Str("01H8X7Y7Z7QWERTYUIOPASDFGHJKLMNP")],
       [k |-> "payload", v |-> Bytes("{\"billing_cycle\": \"monthly\", \"fee_structure\": \"tiered\"}")],
       [k |-> "created_timestamp", v |-> Str("2023-10-27T10:00:00.123456")] >>,
   main |-> <<"----begin example: look-data----", "----begin minmal example: look-data----", "----end: look-data----">>]

\* MerchantDetail: src/src/demo/models/ebb/merchant_detail.py
MerchantDetail ==
  [name |-> "MerchantDetail", table |-> "merchant_detail",
   fields |-> <<
     Field("id", "int", FALSE, Required, [gt |-> 0]),
     Field("uuid", "str", FALSE, Required, [max_length |-> 26]),
     Field("billing_entity_uuid", "str", FALSE, Required, [max_length |-> 26]),
     Field("seasonal", "int", FALSE, Integer(0), [any |-> TRUE]),
     Field("tax_exempt", "int", FALSE, Integer(0), [any |-> TRUE]),
     Field("verified_terms_acceptance", "int", FALSE, Integer(0), [any |-> TRUE]),
     Field("created_timestamp", "datetime", FALSE, NowFactory, [any |-> TRUE]),
     Field("modified_timestamp", "datetime", FALSE, NowFactory, [any |-> TRUE]),
     Field("audit_id", "str", TRUE, None, [max_length |-> 26]) >>,
   MINIMAL_FIELDS |-> {"seasonal", "tax_exempt", "verified_terms_acceptance"},
   to_minimal_dict |-> "json",
   example |-> <<
       [k |-> "id", v |-> Integer(1)],
       [k |-> "uuid", v |-> Str("01H8X7Y7Z7QWERTYUIOPASDFGH")],
       [k |-> "billing_entity_uuid", v |-> Str("01H8X7Y7Z7QWERTYUIOPASDFGZ")],
       [k |-> "seasonal", v |-> Integer(0)],
       [k |-> "tax_exempt", v |-> Integer(1)],
       [k |-> "verified_terms_acceptance", v |-> Integer(1)],
       [k |-> "created_timestamp", v |-> Str("2023-10-27T10:00:00.123456")],
       [k |-> "modified_timestamp", v |-> Str("2023-10-27T10:00:00.123456")],
       [k |-> "audit_id", v |-> Str("01H8X7Y7Z7QWERTYUIOPASDFGA")] >>,
   main |-> <<"----begin example: merchant-detail----", "----begin minmal example: merchant-detail----", "----end: merchant-detail----">>]

\* MiscActionFeeCode: src/src/demo/models/ebb/misc_action_fee_code.py
MiscActionFeeCode ==
  [name |-> "MiscActionFeeCode", table |-> "misc_action_fee_code",
   fields |-> <<
     Field("id", "int", FALSE, Required, [gt |-> 0]),
     Field("uuid", "str", FALSE, Required, [max_length |-> 26]),
     Field("misc_specifier", "str", FALSE, Required, [max_length |-> 25]),
     Field("misc_action_type", "str", FALSE, Required, [max_length |-> 25]),
     Field("effective_date", "date", FALSE, Required, [any |-> TRUE]),
     Field("fee_category", "str", FALSE, Required, [max_length |-> 25]),
     Field("fee_code", "str", FALSE, Required, [max_length |-> 25]),
     Field("deleted_date", "date", TRUE, None, [any |-> TRUE]),
     Field("created_timestamp", "datetime", FALSE, NowFactory, [any |-> TRUE]),
     Field("modified_timestamp", "datetime", FALSE, NowFactory, [any |-> TRUE]),
     Field("audit_id", "str", TRUE, None, [max_length |-> 26]) >>,
   MINIMAL_FIELDS |-> {"misc_specifier", "misc_action_type", "effective_date", "fee_category", "fee_code"},
   to_minimal_dict |-> "json",
   example |-> <<
       [k |-> "id", v |-> Integer(1)],
       [k |-> "uuid", v |-> Str("01H8X7Y7Z7QWERTYUIOPASDFGH")],
       [k |-> "misc_specifier", v |-> Str("SPECIAL_FEE")],
       [k |-> "misc_action_type", v |-> Str("ADJUSTMENT")],
       [k |-> "effective_date", v |-> Str("2023-11-01")],
       [k |-> "fee_category", v |-> Str("MISC")],
       [k |-> "fee_code", v |-> Str("ADJ_FEE")],
       [k |-> "deleted_date", v |-> None],
       [k |-> "created_timestamp", v |-> Str("2023-10-27T10:00:00.123456")],
       [k |-> "modified_timestamp", v |-> Str("2023-10-27T10:00:00.123456")],
       [k |-> "audit_id", v |-> Str("01H8X7Y7Z7QWERTYUIOPASDFGA")] >>,
   main |-> <<"----begin example: misc-action-fee-code----", "----begin minmal example: misc-action-fee-code----", "----end: misc-action-fee-code----">>]

\* MiscActionType: src/src/demo/models/ebb/misc_action_type.py
MiscActionType ==
  [name |-> "MiscActionType", table |-> "misc_action_type",
   fields |-> <<
     Field("id", "int", FALSE, Required, [gt |-> 0]),
     Field("uuid", "str", FALSE, Required, [max_length |-> 26]),
     Field("misc_action_type", "str", FALSE, Required, [max_length |-> 25]),
     Field("created_timestamp", "datetime", FALSE, NowFactory, [any |-> TRUE]) >>,
   MINIMAL_FIELDS |-> {"misc_action_type"},
   to_minimal_dict |-> "json",
   example |-> <<
       [k |-> "id", v |-> Integer(1)],
       [k |-> "uuid", v |-> Str("01H8X7Y7Z7QWERTYUIOPASDFGH")],
       [k |-> "misc_action_type", v |-> Str("ADJUSTMENT")],
       [k |-> "created_timestamp", v |-> Str("2023-10-27T10:00:00.123456")] >>,
   main |-> <<"----begin example: misc-action-type----", "----begin minmal example: misc-action-type----", "----end: misc-action-type----">>]

\* MiscSpecifier: src/src/demo/models/ebb/misc_specifier.py
MiscSpecifier ==
  [name |-> "MiscSpecifier", table |-> "misc_specifier",
   fields |-> <<
     Field("id", "int", FALSE, Required, [gt |-> 0]),
     Field("uuid", "str", FALSE, Required, [max_length |-> 26]),
     Field("misc_specifier", "str", FALSE, Required, [max_length |-> 25]),
     Field("created_timestamp", "datetime", FALSE, NowFactory, [any |-> TRUE]) >>,
   MINIMAL_FIELDS |-> {"misc_specifier"},
   to_minimal_dict |-> "json",
   example |-> <<
       [k |-> "id", v |-> Integer(1)],
       [k |-> "uuid", v |-> Str("01H8X7Y7Z7QWERTYUIOPASDFGH")],
       [k |-> "misc_specifier", v |-> Str("CUSTOM_FEE_TYPE")],
       [k |-> "created_timestamp", v |-> Str("2023-10-27T10:00:00.123456")] >>,
   main |-> <<"----begin example: misc-specifier----", "----begin minmal example: misc-specifier----", "----end: misc-specifier----">>]

\* ModelFeeSummary: src/src/demo/models/ebb/model_fee_summary.py
ModelFeeSummary ==
  [name |-> "ModelFeeSummary", table |-> "model_fee_summary",
   fields |-> <<
     Field("id", "int", FALSE, Required, [gt |-> 0]),
     Field("uuid", "str", FALSE, Required, [max_length |-> 26]),
     Field("billing_entity_uuid", "str", FALSE, Required, [max_length |-> 26]),
     Field("billing_date", "date", FALSE, Required, [any |-> TRUE]),
     Field("fee_category", "str", FALSE, Required, [max_length |-> 25]),
     Field("fee_code", "str", FALSE, Required, [max_length |-> 25]),
     Field("currency", "str", FALSE, Required, [max_length |-> 3]),
     Field("total_period_units", "decimal", FALSE, Decimal(FALSE, 0, 4), [max_digits |-> 12, decimal_places |-> 4]),
     Field("total_basis_amount", "decimal", FALSE, Decimal(FALSE, 0, 3), [max_digits |-> 12, decimal_places |-> 3]),
     Field("total_fee_amount", "decimal", FALSE, Decimal(FALSE, 0, 3), [max_digits |-> 12, decimal_places |-> 3]),
     Field("fee_rate_uuid", "str", FALSE, Required, [max_length |-> 26]),
     Field("request_uuid", "str", FALSE, Required, [max_length |-> 26]),
     Field("invoice_info_uuid", "str", TRUE, None, [max_length |-> 26]),
     Field("fee_code_ledger_account_uuid", "str", TRUE, None, [max_length |-> 26]),
     Field("credit_ledger_account_uuid", "str", TRUE, None, [max_length |-> 26]),
     Field("debit_ledger_account_uuid", "str", TRUE, None, [max_length |-> 26]),
     Field("created_timestamp", "datetime", FALSE, NowFactory, [any |-> TRUE]),
     Field("modified_timestamp", "datetime", FALSE, NowFactory, [any |-> TRUE]) >>,
   MINIMAL_FIELDS |-> {"fee_category", "fee_code", "currency", "total_period_units", "total_basis_amount", "total_fee_amount"},
   to_minimal_dict |-> "json",
   example |-> <<
       [k |-> "id", v |-> Integer(1)],
       [k |-> "uuid", v |-> Str("01H8X7Y7Z7QWERTYUIOPASDFGH")],
       [k |-> "billing_entity_uuid", v |-> Str("01H8X7Y7Z7QWERTYUIOPASDFGZ")],
       [k |-> "billing_date", v |-> Str("2023-11-01")],
       [k |-> "fee_category", v |-> Str("RECURRING")],
       [k |-> "fee_code", v |-> Str("MONTHLY_FEE")],
       [k |-> "currency", v |-> Str("USD")],
       [k |-> "total_period_units", v |-> Str("1.0000")],
       [k |-> "total_basis_amount", v |-> Str("99.990")],
       [k |-> "total_fee_amount", v |-> Str("99.990")],
       [k |-> "fee_rate_uuid", v |-> Str("01H8X7Y7Z7QWERTYUIOPASDFGA")],
       [k |-> "request_uuid", v |-> Str("01H8X7Y7Z7QWERTYUIOPASDFGB")],
       [k |-> "invoice_info_uuid", v |-> Str("01H8X7Y7Z7QWERTYUIOPASDFGC")],
       [k |-> "fee_code_ledger_account_uuid", v |-> Str("01H8X7Y7Z7QWERTYUIOPASDFGD")],
       [k |-> "credit_ledger_account_uuid", v |-> Str("01H8X7Y7Z7QWERTYUIOPASDFGE")],
       [k |-> "debit_ledger_account_uuid", v |-> Str("01H8X7Y7Z7QWERTYUIOPASDFGF")],
       [k |-> "created_timestamp", v |-> Str("2023-10-27T10:00:00.123456")],
       [k |-> "modified_timestamp", v |-> Str("2023-10-27T10:00:00.123456")] >>,
   main |-> <<"----begin example: model-fee-summary----", "----begin minmal example: model-fee-summary----", "----end: model-fee-summary----">>]

\* MonetaryAdjustment: src/src/demo/models/ebb/monetary_adjustment.py
MonetaryAdjustment ==
  [name |-> "MonetaryAdjustment", table |-> "monetary_adjustment",
   fields |-> <<
     Field("id", "int", FALSE, Required, [gt |-> 0]),
     Field("uuid", "str", FALSE, Required, [max_length |-> 26]),
     Field("billing_entity_uuid", "str", FALSE, Required, [max_length |-> 26]),
     Field("adjust_fee_summary_uuid", "str", FALSE, Required, [max_length |-> 26]),
     Field("qualified_fee_summary_uuid", "str", FALSE, Required, [max_length |-> 26]),
     Field("rule_uuid", "str", FALSE, Required, [max_length |-> 26]),
     Field("rule_criteria_uuid", "str", TRUE, None, [max_length |-> 26]),
     Field("rule_type", "literal", FALSE, Required, [vals |-> {"AUTO_ADJUST", "TIERED"}]),
     Field("request_uuid", "str", TRUE, None, [max_length |-> 26]),
     Field("created_timestamp", "datetime", FALSE, NowFactory, [any |-> TRUE]) >>,
   MINIMAL_FIELDS |-> {"rule_type"},
   to_minimal_dict |-> "json",
   example |-> <<
       [k |-> "id", v |-> Integer(1)],
       [k |-> "uuid", v |-> Str("01H8X7Y7Z7QWERTYUIOPASDFGH")],
       [k |-> "billing_entity_uuid", v |-> Str("01H8X7Y7Z7QWERTYUIOPASDFGZ")],
       [k |-> "adjust_fee_summary_uuid", v |-> Str("01H8X7Y7Z7QWERTYUIOPASDFGA")],
       [k |-> "qualified_fee_summary_uuid", v |-> Str("01H8X7Y7Z7QWERTYUIOPASDFGB")],
       [k |-> "rule_uuid", v |-> Str("01H8X7Y7Z7QWERTYUIOPASDFGC")],
       [k |-> "rule_criteria_uuid", v |-> Str("01H8X7Y7Z7QWERTYUIOPASDFGD")],
       [k |-> "rule_type", v |-> Str("AUTO_ADJUST")],
       [k |-> "request_uuid", v |-> Str("01H8X7Y7Z7QWERTYUIOPASDFGE")],
       [k |-> "created_timestamp", v |-> Str("2023-10-27T10:00:00.123456")] >>,
   main |-> <<"----begin example: monetary-adjustment----", "----begin minmal example: monetary-adjustment----", "----end: monetary-adjustment----">>]

\* MonetaryAdjustmentMutation: src/src/demo/models/ebb/monetary_adjustment_mutation.py
MonetaryAdjustmentMutation ==
  [name |-> "MonetaryAdjustmentMutation", table |-> "monetary_adjustment_mutation",
   fields |-> <<
     Field("id", "int", FALSE, Required, [gt |-> 0]),
     Field("mutation_action", "literal", FALSE, Required, [vals |-> {"UPDATE", "DELETE"}]),
     Field("mutation_timestamp", "datetime", FALSE, NowFactory, [any |-> TRUE]),
     Field("monetary_adjustment_id", "int", FALSE, Required, [gt |-> 0]),
     Field("uuid", "str", FALSE, Required, [max_length |-> 26]),
     Field("billing_entity_uuid", "str", FALSE, Required, [max_length |-> 26]),
     Field("adjust_fee_summary_uuid", "str", FALSE, Required, [max_length |-> 26]),
     Field("qualified_fee_summary_uuid", "str", FALSE, Required, [max_length |-> 26]),
     Field("rule_uuid", "str", FALSE, Required, [max_length |-> 26]),
     Field("rule_criteria_uuid", "str", TRUE, None, [max_length |-> 26]),
     Field("rule_type", "literal", FALSE, Required, [vals |-> {"AUTO_ADJUST", "TIERED"}]),
     Field("request_uuid", "str", TRUE, None, [max_length |-> 26]),
     Field("created_timestamp", "datetime", FALSE, NowFactory, [any |-> TRUE]) >>,
   MINIMAL_FIELDS |-> {"mutation_action", "rule_type"},
   to_minimal_dict |-> "json",
   example |-> <<
       [k |-> "id", v |-> Integer(1)],
       [k |-> "mutation_action", v |-> Str("UPDATE")],
       [k |-> "mutation_timestamp", v |-> Str("2023-10-27T10:00:00.123456")],
       [k |-> "monetary_adjustment_id", v |-> Integer(123)],
       [k |-> "uuid", v |-> Str("01H8X7Y7Z7QWERTYUIOPASDFGH")],
       [k |-> "billing_entity_uuid", v |-> Str("01H8X7Y7Z7QWERTYUIOPASDFGZ")],
       [k |-> "adjust_fee_summary_uuid", v |-> Str("01H8X7Y7Z7QWERTYUIOPASDFGA")],
       [k |-> "qualified_fee_summary_uuid", v |-> Str("01H8X7Y7Z7QWERTYUIOPASDFGB")],
       [k |-> "rule_uuid", v |-> Str("01H8X7Y7Z7QWERTYUIOPASDFGC")],
       [k |-> "rule_criteria_uuid", v |-> Str("01H8X7Y7Z7QWERTYUIOPASDFGD")],
       [k |-> "rule_type", v |-> Str("AUTO_ADJUST")],
       [k |-> "request_uuid", v |-> Str("01H8X7Y7Z7QWERTYUIOPASDFGE")],
       [k |-> "created_timestamp", v |-> Str("2023-10-27T09:00:00.123456")] >>,
   main |-> <<"----begin example: monetary-adjustment-mutation----", "----begin minmal example: monetary-adjustment-mutation----", "----end: monetary-adjustment-mutation----">>]

\* MonetaryRuleAlias: src/src/demo/models/ebb/monetary_rule_alias.py
MonetaryRuleAlias ==
  [name |-> "MonetaryRuleAlias", table |-> "monetary_rule_alias",
   fields |-> <<
     Field("id", "int", FALSE, Required, [gt |-> 0]),
     Field("uuid", "str", FALSE, Required, [max_length |-> 26]),
     Field("rule_alias", "str", FALSE, Required, [max_length |-> 25]),
     Field("rule_type", "literal", FALSE, Required, [vals |-> {"AUTO_ADJUST", "TIERED"}]),
     Field("created_timestamp", "datetime", FALSE, NowFactory, [any |-> TRUE]) >>,
   MINIMAL_FIELDS |-> {"rule_alias", "rule_type"},
   to_minimal_dict |-> "json",
   example |-> <<
       [k |-> "id", v |-> Integer(1)],
       [k |-> "uuid", v |-> Str("01H8X7Y7Z7QWERTYUIOPASDFGH")],
       [k |-> "rule_alias", v |-> Str("VOLUME_DISCOUNT")],
       [k |-> "rule_type", v |-> Str("TIERED")],
       [k |-> "created_timestamp", v |-> Str("2023-10-27T10:00:00.123456")] >>,
   main |-> <<"----begin example: monetary-rule-alias----", "----begin minmal example: monetary-rule-alias----", "----end: monetary-rule-alias----">>]

\* MonetaryRuleSet: src/src/demo/models/ebb/monetary_rule_set.py
MonetaryRuleSet ==
  [name |-> "MonetaryRuleSet", table |-> "monetary_rule_set",
   fields |-> <<
     Field("id", "int", FALSE, Required, [gt |-> 0]),
     Field("uuid", "str", FALSE, Required, [max_length |-> 26]),
     Field("rule_status", "literal", FALSE, Str("SETUP"), [vals |-> {"SETUP", "ACTIVE", "DEPRECATED", "DELETED"}]),
     Field("short_desc", "str", FALSE, Required, [max_length |-> 40]),
     Field("full_desc", "str", TRUE, None, [max_length |-> 255]),
     Field("created_timestamp", "datetime", FALSE, NowFactory, [any |-> TRUE]),
     Field("modified_timestamp", "datetime", FALSE, NowFactory, [any |-> TRUE]),
     Field("audit_id", "str", TRUE, None, [max_length |-> 26]) >>,
   MINIMAL_FIELDS |-> {"rule_status", "short_desc"},
   to_minimal_dict |-> "json",
   example |-> <<
       [k |-> "id", v |-> Integer(1)],
       [k |-> "uuid", v |-> Str("01H8X7Y7Z7QWERTYUIOPASDFGH")],
       [k |-> "rule_status", v |-> Str("ACTIVE")],
       [k |-> "short_desc", v |-> Str("Volume Discount Rules")],
       [k |-> "full_desc", v |-> Str("Tiered discount rules based on usage volume for enterprise customers")],
       [k |-> "created_timestamp", v |-> Str("2023-10-27T10:00:00.123456")],
       [k |-> "modified_timestamp", v |-> Str("2023-10-27T10:00:00.123456")],
       [k |-> "audit_id", v |-> Str("01H8X7Y7Z7QWERTYUIOPASDFGA")] >>,
   main |-> <<"----begin example: monetary-rule-set----", "----begin minmal example: monetary-rule-set----", "----end: monetary-rule-set----">>]

\* MonetaryRuleSetRule: src/src/demo/models/ebb/monetary_rule_set_rule.py
MonetaryRuleSetRule ==
  [name |-> "MonetaryRuleSetRule", table |-> "monetary_rule_set_rule",
   fields |-> <<
     Field("id", "int", FALSE, Required, [gt |-> 0]),
     Field("uuid", "str", FALSE, Required, [max_length |-> 26]),
     Field("monetary_rule_set_uuid", "str", FALSE, Required, [max_length |-> 26]),
     Field("rule_uuid", "str", FALSE, Required, [max_length |-> 26]),
     Field("rule_type", "literal", FALSE, Required, [vals |-> {"AUTO_ADJUST", "TIERED"}]),
     Field("effective_date", "date", FALSE, Required, [any |-> TRUE]),
     Field("deleted_date", "date", TRUE, None, [any |-> TRUE]),
     Field("created_timestamp", "datetime", FALSE, NowFactory, [any |-> TRUE]),
     Field("modified_timestamp", "datetime", FALSE, NowFactory, [any |-> TRUE]),
     Field("audit_id", "str", TRUE, None, [max_length |-> 26]) >>,
   MINIMAL_FIELDS |-> {"rule_type", "effective_date"},
   to_minimal_dict |-> "json",
   example |-> <<
       [k |-> "id", v |-> Integer(1)],
       [k |-> "uuid", v |-> Str("01H8X7Y7Z7QWERTYUIOPASDFGH")],
       [k |-> "monetary_rule_set_uuid", v |-> Str("01H8X7Y7Z7QWERTYUIOPASDFGZ")],
       [k |-> "rule_uuid", v |-> Str("01H8X7Y7Z7QWERTYUIOPASDFGA")],
       [k |-> "rule_type", v |-> Str("TIERED")],
       [k |-> "effective_date", v |-> Str("2023-11-01")],
       [k |-> "deleted_date", v |-> None],
       [k |-> "created_timestamp", v |-> Str("2023-10-27T10:00:00.123456")],
       [k |-> "modified_timestamp", v |-> Str("2023-10-27T10:00:00.123456")],
       [k |-> "audit_id", v |-> Str("01H8X7Y7Z7QWERTYUIOPASDFGB")] >>,
   main |-> <<"----begin example: monetary-rule-set-rule----", "----begin minmal example: monetary-rule-set-rule----", "----end: monetary-rule-set-rule----">>]

\* PartnerConfig: src/src/demo/models/ebb/partner_config.py
PartnerConfig ==
  [name |-> "PartnerConfig", table |-> "partner_config",
   fields |-> <<
     Field("id", "int", FALSE, Required, [gt |-> 0]),
     Field("uuid", "str", FALSE, Required, [max_length |-> 26]),
     Field("billing_entity_uuid", "str", FALSE, Required, [max_length |-> 26]),
     Field("hierarchy_type", "str", FALSE, Required, [max_length |-> 20]),
     Field("effective_date", "date", FALSE, Required, [any |-> TRUE]),
     Field("revenue_share_group", "str", TRUE, None, [max_length |-> 20]),
     Field("post_method", "str", TRUE, None, [max_length |-> 20]),
     Field("plan_billing_method", "str", TRUE, None, [max_length |-> 20]),
     Field("invoice_method", "str", TRUE, None, [max_length |-> 20]),
     Field("invoice_number_format", "str", TRUE, None, [max_length |-> 20]),
     Field("settlement_method", "str", TRUE, None, [max_length |-> 20]),
     Field("seasonal_rule_set_uuid", "str", TRUE, None, [max_length |-> 26]),
     Field("created_timestamp", "datetime", FALSE, NowFactory, [any |-> TRUE]),
     Field("modified_timestamp", "datetime", FALSE, NowFactory, [any |-> TRUE]),
     Field("audit_id", "str", TRUE, None, [max_length |-> 26]) >>,
   MINIMAL_FIELDS |-> {"hierarchy_type", "revenue_share_group", "post_method", "invoice_method", "settlement_method"},
   to_minimal_dict |-> "json",
   example |-> <<
       [k |-> "id", v |-> Integer(1)],
       [k |-> "uuid", v |-> Str("01H8X7Y7Z7QWERTYUIOPASDFGH")],
       [k |-> "billing_entity_uuid", v |-> Str("01H8X7Y7Z7QWERTYUIOPASDFGZ")],
       [k |-> "hierarchy_type", v |-> Str("MERCHANT")],
       [k |-> "effective_date", v |-> Str("2023-11-01")],
       [k |-> "revenue_share_group", v |-> Str("STANDARD")],
       [k |-> "post_method", v |-> Str("IMMEDIATE")],
       [k |-> "plan_billing_method", v |-> Str("PREPAID")],
       [k |-> "invoice_method", v |-> Str("ELECTRONIC")],
       [k |-> "invoice_number_format", v |-> Str("INV-{YYYY}-{SEQ}")],
       [k |-> "settlement_method", v |-> Str("NET30")],
       [k |-> "seasonal_rule_set_uuid", v |-> Str("01H8X7Y7Z7QWERTYUIOPASDFGA")],
       [k |-> "created_timestamp", v |-> Str("2023-10-27T10:00:00.123456")],
       [k |-> "modified_timestamp", v |-> Str("2023-10-27T10:00:00.123456")],
       [k |-> "audit_id", v |-> Str("01H8X7Y7Z7QWERTYUIOPASDFGB")] >>,
   main |-> <<"----begin example: partner-config----", "----begin minmal example: partner-config----", "----end: partner-config----">>]

\* PlanAction: src/src/demo/models/ebb/plan_action.py
PlanAction ==
  [name |-> "PlanAction", table |-> "plan_action",
   fields |-> <<
     Field("id", "int", FALSE, Required, [gt |-> 0]),
     Field("uuid", "str", FALSE, Required, [max_length |-> 26]),
     Field("billing_entity_uuid", "str", FALSE, Required, [max_length |-> 26]),
     Field("merchant_plan_uuid", "str", FALSE, Required, [max_length |-> 13]),
     Field("serial_number", "str", TRUE, None, [max_length |-> 32]),
     Field("plan_action_type", "str", FALSE, Required, [max_length |-> 25]),
     Field("fee_category", "str", FALSE, Required, [max_length |-> 25]),
     Field("fee_code", "str", FALSE, Required, [max_length |-> 25]),
     Field("action_datetime", "datetime", FALSE, Required, [any |-> TRUE]),
     Field("num_units", "int", FALSE, Integer(0), [any |-> TRUE]),
     Field("units_in_period", "int", FALSE, Required, [ge |-> 0]),
     Field("basis_amount", "decimal", FALSE, Decimal(FALSE, 0, 3), [max_digits |-> 12, decimal_places |-> 3]),
     Field("basis_currency", "str", TRUE, None, [max_length |-> 3]),
     Field("reference", "str", TRUE, None, [max_length |-> 50]),
     Field("plan_action_fee_code_uuid", "str", TRUE, None, [max_length |-> 26]),
     Field("fee_uuid", "str", TRUE, None, [max_length |-> 26]),
     Field("event_uuid", "str", TRUE, None, [max_length |-> 26]),
     Field("request_uuid", "str", TRUE, None, [max_length |-> 26]),
     Field("date_to_post", "date", TRUE, None, [any |-> TRUE]),
     Field("posting_date", "date", TRUE, None, [any |-> TRUE]),
     Field("created_timestamp", "datetime", FALSE, NowFactory, [any |-> TRUE]),
     Field("modified_timestamp", "datetime", FALSE, NowFactory, [any |-> TRUE]) >>,
   MINIMAL_FIELDS |-> {"plan_action_type", "fee_category", "fee_code", "num_units", "units_in_period"},
   to_minimal_dict |-> "python",
   example |-> <<
       [k |-> "id", v |-> Integer(1)],
       [k |-> "uuid", v |-> Str("01H8X7Y7Z7QWERTYUIOPASDFGH")],
       [k |-> "billing_entity_uuid", v |-> Str("01H8X7Y7Z7QWERTYUIOPASDFGZ")],
       [k |-> "merchant_plan_uuid", v |-> Str("01H8X7Y7Z7QWE")],
       [k |-> "serial_number", v |-> Str("SN123456789")],
       [k |-> "plan_action_type", v |-> Str("SUBSCRIPTION")],
       [k |-> "fee_category", v |-> Str("RECURRING")],
       [k |-> "fee_code", v |-> Str("MONTHLY_FEE")],
       [k |-> "action_datetime", v |-> Str("2023-10-27T10:00:00.123456")],
       [k |-> "num_units", v |-> Integer(1)],
       [k |-> "units_in_period", v |-> Integer(1)],
       [k |-> "basis_amount", v |-> Str("99.990")],
       [k |-> "basis_currency", v |-> Str("USD")],
       [k |-> "reference", v |-> Str("Initial Subscription")],
       [k |-> "plan_action_fee_code_uuid", v |-> Str("01H8X7Y7Z7QWERTYUIOPASDFGA")],
       [k |-> "fee_uuid", v |-> Str("01H8X7Y7Z7QWERTYUIOPASDFGB")],
       [k |-> "event_uuid", v |-> Str("01H8X7Y7Z7QWERTYUIOPASDFGC")],
       [k |-> "request_uuid", v |-> Str("01H8X7Y7Z7QWERTYUIOPASDFGD")],
       [k |-> "date_to_post", v |-> Str("2023-11-01")],
       [k |-> "posting_date", v |-> Str("2023-11-01")],
       [k |-> "created_timestamp", v |-> Str("2023-10-27T10:00:00.123456")],
       [k |-> "modified_timestamp", v |-> Str("2023-10-27T10:00:00.123456")] >>,
   main |-> <<"----begin example: plan-action----", "----begin minmal example: plan-action----", "----end: plan-action----">>]

\* PlanActionError: src/src/demo/models/ebb/plan_action_error.py
PlanActionError ==
  [name |-> "PlanActionError", table |-> "plan_action_error",
   fields |-> <<
     Field("id", "int", FALSE, Required, [gt |-> 0]),
     Field("uuid", "str", FALSE, Required, [max_length |-> 26]),
     Field("plan_action_uuid", "str", FALSE, Required, [max_length |-> 26]),
     Field("request_uuid", "str", FALSE, Required, [max_length |-> 26]),
     Field("posting_date", "date", FALSE, Required, [any |-> TRUE]),
     Field("original_request_uuid", "str", FALSE, Required, [max_length |-> 26]),
     Field("original_posting_date", "date", FALSE, Required, [any |-> TRUE]),
     Field("posting_attempts", "int", FALSE, Integer(1), [any |-> TRUE]),
     Field("error_code", "str", FALSE, Required, [max_length |-> 25]),
     Field("error_details", "str", TRUE, None, [any |-> TRUE]),
     Field("resolved", "int", FALSE, Integer(0), [any |-> TRUE]),
     Field("created_timestamp", "datetime", FALSE, NowFactory, [any |-> TRUE]),
     Field("modified_timestamp", "datetime", FALSE, NowFactory, [any |-> TRUE]) >>,
   MINIMAL_FIELDS |-> {"posting_attempts", "error_code", "resolved"},
   to_minimal_dict |-> "json",
   example |-> <<
       [k |-> "id", v |-> Integer(1)],
       [k |-> "uuid", v |-> Str("01H8X7Y7Z7QWERTYUIOPASDFGH")],
       [k |-> "plan_action_uuid", v |-> Str("01H8X7Y7Z7QWERTYUIOPASDFGZ")],
       [k |-> "request_uuid", v |-> Str("01H8X7Y7Z7QWERTYUIOPASDFGA")],
       [k |-> "posting_date", v |-> Str("2023-11-01")],
       [k |-> "original_request_uuid", v |-> Str("01H8X7Y7Z7QWERTYUIOPASDFGB")],
       [k |-> "original_posting_date", v |-> Str("2023-10-31")],
       [k |-> "posting_attempts", v |-> Integer(3)],
       [k |-> "error_code", v |-> Str("RATE_NOT_FOUND")],
       [k |-> "error_details", v |-> Str("Fee rate configuration missing for merchant plan")],
       [k |-> "resolved", v |-> Integer(0)],
       [k |-> "created_timestamp", v |-> Str("2023-10-27T10:00:00.123456")],
       [k |-> "modified_timestamp", v |-> Str("2023-10-27T12:30:00.123456")] >>,
   main |-> <<"----begin example: plan-action-error----", "----begin minmal example: plan-action-error----", "----end: plan-action-error----">>]

\* PlanActionType: src/src/demo/models/ebb/plan_action_type.py
PlanActionType ==
  [name |-> "PlanActionType", table |-> "plan_action_type",
   fields |-> <<
     Field("id", "int", FALSE, Required, [gt |-> 0]),
     Field("uuid", "str", FALSE, Required, [max_length |-> 26]),
     Field("plan_action_type", "str", FALSE, Required, [max_length |-> 25]),
     Field("created_timestamp", "datetime", FALSE, NowFactory, [any |-> TRUE]) >>,
   MINIMAL_FIELDS |-> {"plan_action_type"},
   to_minimal_dict |-> "json",
   example |-> <<
       [k |-> "id", v |-> Integer(1)],
       [k |-> "uuid", v |-> Str("01H8X7Y7Z7QWERTYUIOPASDFGH")],
       [k |-> "plan_action_type", v |-> Str("SUBSCRIPTION")],
       [k |-> "created_timestamp", v |-> Str("2023-10-27T10:00:00.123456")] >>,
   main |-> <<"----begin example: plan-action-type----", "----begin minmal example: plan-action-type----", "----end: plan-action-type----">>]

\* ProcessingGroupDates: src/src/demo/models/ebb/processing_group_dates.py
ProcessingGroupDates ==
  [name |-> "ProcessingGroupDates", table |-> "processing_group_dates",
   fields |-> <<
     Field("id", "int", FALSE, Required, [gt |-> 0]),
     Field("uuid", "str", FALSE, Required, [max_length |-> 26]),
     Field("billing_entity_uuid", "str", FALSE, Required, [max_length |-> 26]),
     Field("hierarchy_type", "str", FALSE, Required, [max_length |-> 20]),
     Field("cycle_date", "date", FALSE, Required, [any |-> TRUE]),
     Field("last_cycle_date", "date", TRUE, None, [any |-> TRUE]),
     Field("posting_date", "date", FALSE, Required, [any |-> TRUE]),
     Field("last_posting_date", "date", TRUE, None, [any |-> TRUE]),
     Field("billing_date", "date", FALSE, Required, [any |-> TRUE]),
     Field("last_billing_date", "date", TRUE, None, [any |-> TRUE]),
     Field("settlement_date", "date", FALSE, Required, [any |-> TRUE]),
     Field("last_settlement_date", "date", TRUE, None, [any |-> TRUE]),
     Field("created_timestamp", "datetime", FALSE, NowFactory, [any |-> TRUE]),
     Field("modified_timestamp", "datetime", FALSE, NowFactory, [any |-> TRUE]) >>,
   MINIMAL_FIELDS |-> {"hierarchy_type", "cycle_date", "posting_date", "billing_date", "settlement_date"},
   to_minimal_dict |-> "json",
   example |-> <<
       [k |-> "id", v |-> Integer(1)],
       [k |-> "uuid", v |-> Str("01H8X7Y7Z7QWERTYUIOPASDFGH")],
       [k |-> "billing_entity_uuid", v |-> Str("01H8X7Y7Z7QWERTYUIOPASDFGZ")],
       [k |-> "hierarchy_type", v |-> Str("MERCHANT")],
       [k |-> "cycle_date", v |-> Str("2023-11-01")],
       [k |-> "last_cycle_date", v |-> Str("2023-10-01")],
       [k |-> "posting_date", v |-> Str("2023-11-02")],
       [k |-> "last_posting_date", v |-> Str("2023-10-02")],
       [k |-> "billing_date", v |-> Str("2023-11-03")],
       [k |-> "last_billing_date", v |-> Str("2023-10-03")],
       [k |-> "settlement_date", v |-> Str("2023-11-15")],
       [k |-> "last_settlement_date", v |-> Str("2023-10-15")],
       [k |-> "created_timestamp", v |-> Str("2023-10-27T10:00:00.123456")],
       [k |-> "modified_timestamp", v |-> Str("2023-10-27T10:00:00.123456")] >>,
   main |-> <<"----begin example: processing-group-dates----", "----begin minmal example: processing-group-dates----", "----end: processing-group-dates----">>]

\* ProcessingNote: src/src/demo/models/ebb/processing_note.py
ProcessingNote ==
  [name |-> "ProcessingNote", table |-> "processing_note",
   fields |-> <<
     Field("id", "int", FALSE, Required, [gt |-> 0]),
     Field("uuid", "str", FALSE, Required, [max_length |-> 26]),
     Field("billing_entity_uuid", "str", FALSE, Required, [max_length |-> 26]),
     Field("process_date", "date", TRUE, None, [any |-> TRUE]),
     Field("note_code", "str", FALSE, Required, [max_length |-> 25]),
     Field("notes", "str", TRUE, None, [max_length |-> 512]),
     Field("request_uuid", "str", TRUE, None, [max_length |-> 26]),
     Field("created_timestamp", "datetime", FALSE, NowFactory, [any |-> TRUE]) >>,
   MINIMAL_FIELDS |-> {"process_date", "note_code", "notes"},
   to_minimal_dict |-> "json",
   example |-> <<
       [k |-> "id", v |-> Integer(1)],
       [k |-> "uuid", v |-> Str("01H8X7Y7Z7QWERTYUIOPASDFGH")],
       [k |-> "billing_entity_uuid", v |-> Str("01H8X7Y7Z7QWERTYUIOPASDFGZ")],
       [k |-> "process_date", v |-> Str("2023-11-01")],
       [k |-> "note_code", v |-> Str("BILLING_CYCLE")],
       [k |-> "notes", v |-> Str("Monthly billing cycle processed successfully with 1,234 transactions")],
       [k |-> "request_uuid", v |-> Str("01H8X7Y7Z7QWERTYUIOPASDFGA")],
       [k |-> "created_timestamp", v |-> Str("2023-10-27T10:00:00.123456")] >>,
   main |-> <<"----begin example: processing-note----", "----begin minmal example: processing-note----", "----end: processing-note----">>]

\* ProcessingNoteMutation: src/src/demo/models/ebb/processing_note_mutation.py
ProcessingNoteMutation ==
  [name |-> "ProcessingNoteMutation", table |-> "processing_note_mutation",
   fields |-> <<
     Field("id", "int", FALSE, Required, [gt |-> 0]),
     Field("mutation_action", "literal", FALSE, Required, [vals |-> {"UPDATE", "DELETE"}]),
     Field("mutation_timestamp", "datetime", FALSE, NowFactory, [any |-> TRUE]),
     Field("processing_note_id", "int", FALSE, Required, [gt |-> 0]),
     Field("uuid", "str", FALSE, Required, [max_length |-> 26]),
     Field("billing_entity_uuid", "str", TRUE, None, [max_length |-> 26]),
     Field("process_date", "date", TRUE, None, [any |-> TRUE]),
     Field("note_code", "str", TRUE, None, [max_length |-> 25]),
     Field("notes", "str", TRUE, None, [max_length |-> 512]),
     Field("request_uuid", "str", TRUE, None, [max_length |-> 26]),
     Field("created_timestamp", "datetime", TRUE, None, [any |-> TRUE]) >>,
   MINIMAL_FIELDS |-> {"mutation_action", "note_code"},
   to_minimal_dict |-> "json",
   example |-> <<
       [k |-> "id", v |-> Integer(1)],
       [k |-> "mutation_action", v |-> Str("UPDATE")],
       [k |-> "mutation_timestamp", v |-> Str("2023-10-27T11:00:00.123456")],
       [k |-> "processing_note_id", v |-> Integer(123)],
       [k |-> "uuid", v |-> Str("01H8X7Y7Z7QWERTYUIOPASDFGH")],
       [k |-> "billing_entity_uuid", v |-> Str("01H8X7Y7Z7QWERTYUIOPASDFGZ")],
       [k |-> "process_date", v |-> Str("2023-11-01")],
       [k |-> "note_code", v |-> Str("BILLING_CYCLE")],
       [k |-> "notes", v |-> Str("Monthly billing cycle processed successfully with 1,234 transactions")],
       [k |-> "request_uuid", v |-> Str("01H8X7Y7Z7QWERTYUIOPASDFGA")],
       [k |-> "created_timestamp", v |-> Str("2023-10-27T10:00:00.123456")] >>,
   main |-> <<"----begin example: processing-note-mutation----", "----begin minmal example: processing-note-mutation----", "----end: processing-note-mutation----">>]

\* PrototypeFeeRate: src/src/demo/models/ebb/prototype_fee_rate.py
PrototypeFeeRate ==
  [name |-> "PrototypeFeeRate", table |-> "prototype_fee_rate",
   fields |-> <<
     Field("id", "int", FALSE, Required, [gt |-> 0]),
     Field("uuid", "str", FALSE, Required, [max_length |-> 26]),
     Field("prototype_fee_set_id", "int", FALSE, Required, [gt |-> 0]),
     Field("billing_entity_uuid", "str", FALSE, Required, [max_length |-> 26]),
     Field("fee_category", "str", FALSE, Required, [max_length |-> 25]),
     Field("fee_code", "str", FALSE, Required, [max_length |-> 25]),
     Field("currency", "str", FALSE, Required, [max_length |-> 3]),
     Field("apply_type", "literal", FALSE, Required, [vals |-> {"DEFAULT", "PER_ITEM", "PERCENTAGE", "BOTH", "NONE", "FLAT"}]),
     Field("per_item_amount", "decimal", TRUE, None, [max_digits |-> 12, decimal_places |-> 3]),
     Field("percentage", "decimal", TRUE, None, [max_digits |-> 5, decimal_places |-> 2]),
     Field("created_timestamp", "datetime", FALSE, NowFactory, [any |-> TRUE]),
     Field("modified_timestamp", "datetime", FALSE, NowFactory, [any |-> TRUE]),
     Field("audit_id", "str", TRUE, None, [max_length |-> 26]) >>,
   MINIMAL_FIELDS |-> {"fee_category", "fee_code", "currency", "apply_type", "per_item_amount", "percentage"},
   to_minimal_dict |-> "json",
   example |-> <<
       [k |-> "id", v |-> Integer(1)],
       [k |-> "uuid", v |-> Str("01H8X7Y7Z7QWERTYUIOPASDFGH")],
       [k |-> "prototype_fee_set_id", v |-> Integer(123)],
       [k |-> "billing_entity_uuid", v |-> Str("01H8X7Y7Z7QWERTYUIOPASDFGZ")],
       [k |-> "fee_category", v |-> Str("TRANSACTION")],
       [k |-> "fee_code", v |-> Str("PAYMENT_FEE")],
       [k |-> "currency", v |-> Str("USD")],
       [k |-> "apply_type", v |-> Str("PERCENTAGE")],
       [k |-> "per_item_amount", v |-> None],
       [k |-> "percentage", v |-> Str("2.50")],
       [k |-> "created_timestamp", v |-> Str("2023-10-27T10:00:00.123456")],
       [k |-> "modified_timestamp", v |-> Str("2023-10-27T10:00:00.123456")],
       [k |-> "audit_id", v |-> Str("01H8X7Y7Z7QWERTYUIOPASDFGA")] >>,
   main |-> <<"----begin example: prototype-fee-rate----", "----begin minmal example: prototype-fee-rate----", "----end: prototype-fee-rate----">>]

\* PrototypeFeeSet: src/src/demo/models/ebb/prototype_fee_set.py
PrototypeFeeSet ==
  [name |-> "PrototypeFeeSet", table |-> "prototype_fee_set",
   fields |-> <<
     Field("id", "int", FALSE, Required, [gt |-> 0]),
     Field("uuid", "str", FALSE, Required, [max_length |-> 26]),
     Field("name", "str", FALSE, Required, [max_length |-> 40]),
     Field("disposition", "enum", FALSE, Required, [cls |-> "Disposition", vals |-> {"DRAFT", "PROMOTED", "REMOVED"}]),
     Field("description", "str", TRUE, None, [max_length |-> 255]),
     Field("effective_date", "date", FALSE, Required, [any |-> TRUE]),
     Field("disposition_datetime", "datetime", FALSE, Required, [any |-> TRUE]),
     Field("created_timestamp", "datetime", FALSE, Required, [any |-> TRUE]),
     Field("modified_timestamp", "datetime", FALSE, Required, [any |-> TRUE]) >>,
   MINIMAL_FIELDS |-> {"name", "disposition", "description", "effective_date"},
   to_minimal_dict |-> "json",
   example |-> <<
       [k |-> "id", v |-> Integer(1)],
       [k |-> "uuid", v |-> Str("01H8X7Y7Z7QWERTYUIOPASDFGH")],
       [k |-> "name", v |-> Str("STANDARD_MONTHLY_FEES")],
       [k |-> "disposition", v |-> Str("PROMOTED")],
       [k |-> "description", v |-> Str("Standard monthly billing fee structure for enterprise customers")],
       [k |-> "effective_date", v |-> Str("2023-10-27")],
       [k |-> "disposition_datetime", v |-> Str("2023-10-27T10:00:00.123456")],
       [k |-> "created_timestamp", v |-> Str("2023-10-27T10:00:00.123456")],
       [k |-> "modified_timestamp", v |-> Str("2023-10-27T10:00:00.123456")] >>,
   main |-> <<"----begin example: prototype-fee-set----", "----begin minmal example: prototype-fee-set----", "----end: prototype-fee-set----">>]

\* RevenueAction: src/src/demo/models/ebb/revenue_action.py
RevenueAction ==
  [name |-> "RevenueAction", table |-> "revenue_action",
   fields |-> <<
     Field("id", "int", FALSE, Required, [gt |-> 0]),
     Field("uuid", "str", FALSE, Required, [max_length |-> 26]),
     Field("billing_entity_uuid", "str", FALSE, Required, [max_length |-> 26]),
     Field("fee_category_group", "str", FALSE, Required, [max_length |-> 25]),
     Field("revenue_group", "str", TRUE, None, [max_length |-> 25]),
     Field("developer_uuid", "str", TRUE, None, [max_length |-> 13]),
     Field("developer_app_uuid", "str", TRUE, None, [max_length |-> 13]),
     Field("app_subscription_uuid", "str", TRUE, None, [max_length |-> 13]),
     Field("app_metered_uuid", "str", TRUE, None, [max_length |-> 13]),
     Field("merchant_plan_uuid", "str", TRUE, None, [max_length |-> 13]),
     Field("revenue_action_type", "str", FALSE, Required, [max_length |-> 25]),
     Field("fee_category", "str", FALSE, Required, [max_length |-> 25]),
     Field("fee_code", "str", FALSE, Required, [max_length |-> 25]),
     Field("action_datetime", "datetime", FALSE, Required, [any |-> TRUE]),
     Field("num_units", "int", FALSE, Integer(0), [any |-> TRUE]),
     Field("units_in_period", "int", FALSE, Required, [ge |-> 0]),
     Field("basis_amount", "decimal", FALSE, Decimal(FALSE, 0, 3), [max_digits |-> 12, decimal_places |-> 3]),
     Field("basis_currency", "str", TRUE, None, [max_length |-> 3]),
     Field("reference", "str", TRUE, None, [max_length |-> 50]),
     Field("revenue_action_fee_code_uuid", "str", TRUE, None, [max_length |-> 26]),
     Field("source_billing_entity_uuid", "str", TRUE, None, [max_length |-> 26]),
     Field("settlement_action_uuid", "str", TRUE, None, [max_length |-> 26]),
     Field("fee_uuid", "str", TRUE, None, [max_length |-> 26]),
     Field("event_uuid", "str", TRUE, None, [max_length |-> 26]),
     Field("request_uuid", "str", TRUE, None, [max_length |-> 26]),
     Field("date_to_post", "date", TRUE, None, [any |-> TRUE]),
     Field("posting_date", "date", TRUE, None, [any |-> TRUE]),
     Field("created_timestamp", "datetime", FALSE, NowFactory, [any |-> TRUE]),
     Field("modified_timestamp", "datetime", FALSE, NowFactory, [any |-> TRUE]) >>,
   MINIMAL_FIELDS |-> {"fee_category_group", "revenue_group", "revenue_action_type", "fee_category", "fee_code", "num_units", "basis_amount"},
   to_minimal_dict |-> "json",
   example |-> <<
       [k |-> "id", v |-> Integer(1)],
       [k |-> "uuid", v |-> Str("01H8X7Y7Z7QWERTYUIOPASDFGH")],
       [k |-> "billing_entity_uuid", v |-> Str("01H8X7Y7Z7QWERTYUIOPASDFGZ")],
       [k |-> "fee_category_group", v |-> Str("APP_REVENUE")],
       [k |-> "revenue_group", v |-> Str("SUBSCRIPTION")],
       [k |-> "developer_uuid", v |-> Str("01H8X7Y7Z7QWE")],
       [k |-> "developer_app_uuid", v |-> Str("01H8X7Y7Z7QWE")],
       [k |-> "app_subscription_uuid", v |-> Str("01H8X7Y7Z7QWE")],
       [k |-> "app_metered_uuid", v |-> None],
       [k |-> "merchant_plan_uuid", v |-> None],
       [k |-> "revenue_action_type", v |-> Str("REVENUE_SHARE")],
       [k |-> "fee_category", v |-> Str("REVENUE")],
       [k |-> "fee_code", v |-> Str("APP_SHARE")],
       [k |-> "action_datetime", v |-> Str("2023-10-27T10:00:00.123456")],
       [k |-> "num_units", v |-> Integer(1)],
       [k |-> "units_in_period", v |-> Integer(1)],
       [k |-> "basis_amount", v |-> Str("29.970")],
       [k |-> "basis_currency", v |-> Str("USD")],
       [k |-> "reference", v |-> Str("Monthly subscription revenue")],
       [k |-> "revenue_action_fee_code_uuid", v |-> Str("01H8X7Y7Z7QWERTYUIOPASDFGA")],
       [k |-> "source_billing_entity_uuid", v |-> Str("01H8X7Y7Z7QWERTYUIOPASDFGB")],
       [k |-> "settlement_action_uuid", v |-> Str("01H8X7Y7Z7QWERTYUIOPASDFGC")],
       [k |-> "fee_uuid", v |-> Str("01H8X7Y7Z7QWERTYUIOPASDFGD")],
       [k |-> "event_uuid", v |-> Str("01H8X7Y7Z7QWERTYUIOPASDFGE")],
       [k |-> "request_uuid", v |-> Str("01H8X7Y7Z7QWERTYUIOPASDFGF")],
       [k |-> "date_to_post", v |-> Str("2023-11-01")],
       [k |-> "posting_date", v |-> Str("2023-11-01")],
       [k |-> "created_timestamp", v |-> Str("2023-10-27T10:00:00.123456")],
       [k |-> "modified_timestamp", v |-> Str("2023-10-27T10:00:00.123456")] >>,
   main |-> <<"----begin example: revenue-action----", "----begin minmal example: revenue-action----", "----end: revenue-action----">>]

\* RevenueActionFeeCode: src/src/demo/models/ebb/revenue_action_fee_code.py
RevenueActionFeeCode ==
  [name |-> "RevenueActionFeeCode", table |-> "revenue_action_fee_code",
   fields |-> <<
     Field("id", "int", FALSE, Required, [gt |-> 0]),
     Field("uuid", "str", FALSE, Required, [max_length |-> 26]),
     Field("fee_category_group", "str", FALSE, Required, [max_length |-> 25]),
     Field("revenue_group", "str", TRUE, None, [max_length |-> 25]),
     Field("revenue_share_group", "str", TRUE, None, [max_length |-> 20]),
     Field("developer_uuid", "str", TRUE, None, [max_length |-> 13]),
     Field("developer_app_uuid", "str", TRUE, None, [max_length |-> 13]),
     Field("app_subscription_uuid", "str", TRUE, None, [max_length |-> 13]),
     Field("app_metered_uuid", "str", TRUE, None, [max_length |-> 13]),
     Field("merchant_plan_uuid", "str", TRUE, None, [max_length |-> 13]),
     Field("revenue_action_type", "str", FALSE, Required, [max_length |-> 25]),
     Field("effective_date", "date", FALSE, Required, [any |-> TRUE]),
     Field("fee_category", "str", FALSE, Required, [max_length |-> 25]),
     Field("fee_code", "str", FALSE, Required, [max_length |-> 25]),
     Field("deleted_date", "date", TRUE, None, [any |-> TRUE]),
     Field("created_timestamp", "datetime", FALSE, NowFactory, [any |-> TRUE]),
     Field("modified_timestamp", "datetime", FALSE, NowFactory, [any |-> TRUE]),
     Field("audit_id", "str", TRUE, None, [max_length |-> 26]) >>,
   MINIMAL_FIELDS |-> {"fee_category_group", "revenue_group", "revenue_action_type", "effective_date", "fee_category", "fee_code"},
   to_minimal_dict |-> "json",
   example |-> <<
       [k |-> "id", v |-> Integer(1)],
       [k |-> "uuid", v |-> Str("01H8X7Y7Z7QWERTYUIOPASDFGH")],
       [k |-> "fee_category_group", v |-> Str("APP_REVENUE")],
       [k |-> "revenue_group", v |-> Str("SUBSCRIPTION")],
       [k |-> "revenue_share_group", v |-> Str("STANDARD")],
       [k |-> "developer_uuid", v |-> Str("01H8X7Y7Z7QWE")],
       [k |-> "developer_app_uuid", v |-> Str("01H8X7Y7Z7QWE")],
       [k |-> "app_subscription_uuid", v |-> Str("01H8X7Y7Z7QWE")],
       [k |-> "app_metered_uuid", v |-> None],
       [k |-> "merchant_plan_uuid", v |-> None],
       [k |-> "revenue_action_type", v |-> Str("REVENUE_SHARE")],
       [k |-> "effective_date", v |-> Str("2023-11-01")],
       [k |-> "fee_category", v |-> Str("REVENUE")],
       [k |-> "fee_code", v |-> Str("APP_SHARE")],
       [k |-> "deleted_date", v |-> None],
       [k |-> "created_timestamp", v |-> Str("2023-10-27T10:00:00.123456")],
       [k |-> "modified_timestamp", v |-> Str("2023-10-27T10:00:00.123456")],
       [k |-> "audit_id", v |-> Str("01H8X7Y7Z7QWERTYUIOPASDFGA")] >>,
   main |-> <<"----begin example: revenue-action-fee-code----", "----begin minmal example: revenue-action-fee-code----", "----end: revenue-action-fee-code----">>]

\* RevenueShareGroup: src/src/demo/models/ebb/revenue_share_group.py
RevenueShareGroup ==
  [name |-> "RevenueShareGroup", table |-> "revenue_share_group",
   fields |-> <<
     Field("id", "int", FALSE, Required, [gt |-> 0]),
     Field("uuid", "str", FALSE, Required, [max_length |-> 26]),
     Field("revenue_share_group", "str", FALSE, Required, [max_length |-> 20]),
     Field("short_desc", "str", TRUE, None, [max_length |-> 40]),
     Field("description", "str", TRUE, None, [max_length |-> 255]),
     Field("created_timestamp", "datetime", FALSE, NowFactory, [any |-> TRUE]),
     Field("modified_timestamp", "datetime", FALSE, NowFactory, [any |-> TRUE]) >>,
   MINIMAL_FIELDS |-> {"revenue_share_group", "short_desc"},
   to_minimal_dict |-> "json",
   example |-> <<
       [k |-> "id", v |-> Integer(1)],
       [k |-> "uuid", v |-> Str("01H8X7Y7Z7QWERTYUIOPASDFGH")],
       [k |-> "revenue_share_group", v |-> Str("STANDARD_30")],
       [k |-> "short_desc", v |-> Str("Standard 30% Revenue Share")],
       [k |-> "description", v |-> Str("Standard revenue sharing arrangement with 30% developer share")],
       [k |-> "created_timestamp", v |-> Str("2023-10-27T10:00:00.123456")],
       [k |-> "modified_timestamp", v |-> Str("2023-10-27T10:00:00.123456")] >>,
   main |-> <<"----begin example: revenue-share-group----", "----begin minmal example: revenue-share-group----", "----end: revenue-share-group----">>]

\* ServerConfig: src/src/demo/models/ebb/server_config.py
ServerConfig ==
  [name |-> "ServerConfig", table |-> "server_config",
   fields |-> <<
     Field("id", "int", FALSE, Required, [gt |-> 0]),
     Field("config_key", "str", FALSE, Required, [max_length |-> 127]),
     Field("config_value", "str", TRUE, None, [max_length |-> 2000]),
     Field("created_timestamp", "datetime", FALSE, NowFactory, [any |-> TRUE]),
     Field("modified_timestamp", "datetime", FALSE, NowFactory, [any |-> TRUE]) >>,
   MINIMAL_FIELDS |-> {"config_key", "config_value"},
   to_minimal_dict |-> "json",
   example |-> <<
       [k |-> "id", v |-> Integer(1)],
       [k |-> "config_key", v |-> Str("billing.default_currency")],
       [k |-> "config_value", v |-> Str("USD")],
       [k |-> "created_timestamp", v |-> Str("2023-10-27T10:00:00.123456")],
       [k |-> "modified_timestamp", v |-> Str("2023-10-27T10:00:00.123456")] >>,
   main |-> <<"----begin example: server-config----", "----begin minmal example: server-config----", "----end: server-config----">>]

\* Settlement: src/src/demo/models/ebb/settlement.py
Settlement ==
  [name |-> "Settlement", table |-> "settlement",
   fields |-> <<
     Field("id", "int", FALSE, Required, [gt |-> 0]),
     Field("uuid", "str", FALSE, Required, [max_length |-> 26]),
     Field("settlement_date", "date", FALSE, Required, [any |-> TRUE]),
     Field("billing_entity_uuid", "str", FALSE, Required, [max_length |-> 26]),
     Field("entity_uuid", "str", FALSE, Required, [max_length |-> 13]),
     Field("alternate_id", "str", TRUE, None, [max_length |-> 30]),
     Field("payable_receivable", "literal", FALSE, Required, [vals |-> {"PAYABLE", "RECEIVABLE"}]),
     Field("currency", "str", FALSE, Required, [max_length |-> 3]),
     Field("total_amount", "decimal", FALSE, Required, [max_digits |-> 12, decimal_places |-> 3]),
     Field("fee_amount", "decimal", FALSE, Required, [max_digits |-> 12, decimal_places |-> 3]),
     Field("tax1_amount", "decimal", FALSE, Decimal(FALSE, 0, 3), [max_digits |-> 12, decimal_places |-> 3]),
     Field("tax2_amount", "decimal", FALSE, Decimal(FALSE, 0, 3), [max_digits |-> 12, decimal_places |-> 3]),
     Field("tax3_amount", "decimal", FALSE, Decimal(FALSE, 0, 3), [max_digits |-> 12, decimal_places |-> 3]),
     Field("tax4_amount", "decimal", FALSE, Decimal(FALSE, 0, 3), [max_digits |-> 12, decimal_places |-> 3]),
     Field("lookup_ledger_account_key", "str", FALSE, Required, [max_length |-> 32]),
     Field("gl_code", "str", TRUE, None, [max_length |-> 40]),
     Field("item_code", "str", TRUE, None, [max_length |-> 30]),
     Field("last_invoice_num", "str", TRUE, None, [max_length |-> 30]),
     Field("request_uuid", "str", TRUE, None, [max_length |-> 26]),
     Field("created_timestamp", "datetime", FALSE, NowFactory, [any |-> TRUE]),
     Field("modified_timestamp", "datetime", FALSE, NowFactory, [any |-> TRUE]) >>,
   MINIMAL_FIELDS |-> {"settlement_date", "payable_receivable", "currency", "total_amount", "fee_amount"},
   to_minimal_dict |-> "json",
   example |-> <<
       [k |-> "id", v |-> Integer(1)],
       [k |-> "uuid", v |-> Str("01H8X7Y7Z7QWERTYUIOPASDFGH")],
       [k |-> "settlement_date", v |-> Str("2023-11-01")],
       [k |-> "billing_entity_uuid", v |-> Str("01H8X7Y7Z7QWERTYUIOPASDFGZ")],
       [k |-> "entity_uuid", v |-> Str("01H8X7Y7Z7QWE")],
       [k |-> "alternate_id", v |-> Str("SETTLE-2023-001")],
       [k |-> "payable_receivable", v |-> Str("PAYABLE")],
       [k |-> "currency", v |-> Str("USD")],
       [k |-> "total_amount", v |-> Str("1234.567")],
       [k |-> "fee_amount", v |-> Str("123.456")],
       [k |-> "tax1_amount", v |-> Str("12.345")],
       [k |-> "tax2_amount", v |-> Str("0.000")],
       [k |-> "tax3_amount", v |-> Str("0.000")],
       [k |-> "tax4_amount", v |-> Str("0.000")],
       [k |-> "lookup_ledger_account_key", v |-> Str("MERCHANT_PAYABLE_USD")],
       [k |-> "gl_code", v |-> Str("2100-001")],
       [k |-> "item_code", v |-> Str("MERCHANT_FEE")],
       [k |-> "last_invoice_num", v |-> Str("INV-2023-001234")],
       [k |-> "request_uuid", v |-> Str("01H8X7Y7Z7QWERTYUIOPASDFGA")],
       [k |-> "created_timestamp", v |-> Str("2023-10-27T10:00:00.123456")],
       [k |-> "modified_timestamp", v |-> Str("2023-10-27T10:00:00.123456")] >>,
   main |-> <<"----begin example: settlement----", "----begin minmal example: settlement----", "----end: settlement----">>]

\* SettlementAction: src/src/demo/models/ebb/settlement_action.py
SettlementAction ==
  [name |-> "SettlementAction", table |-> "settlement_action",
   fields |-> <<
     Field("id", "int", FALSE, Required, [gt |-> 0]),
     Field("uuid", "str", FALSE, Required, [max_length |-> 26]),
     Field("settlement_uuid", "str", FALSE, Required, [max_length |-> 26]),
     Field("action_date", "date", FALSE, Required, [any |-> TRUE]),
     Field("action", "str", FALSE, Required, [max_length |-> 25]),
     Field("currency", "str", FALSE, Required, [max_length |-> 3]),
     Field("total_amount", "decimal", FALSE, Required, [max_digits |-> 12, decimal_places |-> 3]),
     Field("fee_amount", "decimal", FALSE, Required, [max_digits |-> 12, decimal_places |-> 3]),
     Field("tax1_amount", "decimal", FALSE, Decimal(FALSE, 0, 3), [max_digits |-> 12, decimal_places |-> 3]),
     Field("tax2_amount", "decimal", FALSE, Decimal(FALSE, 0, 3), [max_digits |-> 12, decimal_places |-> 3]),
     Field("tax3_amount", "decimal", FALSE, Decimal(FALSE, 0, 3), [max_digits |-> 12, decimal_places |-> 3]),
     Field("tax4_amount", "decimal", FALSE, Decimal(FALSE, 0, 3), [max_digits |-> 12, decimal_places |-> 3]),
     Field("reject_code", "str", TRUE, None, [max_length |-> 10]),
     Field("message", "str", TRUE, None, [max_length |-> 1024]),
     Field("ledger_account_transition_uuid", "str", TRUE, None, [max_length |-> 26]),
     Field("credit_ledger_account_uuid", "str", TRUE, None, [max_length |-> 26]),
     Field("debit_ledger_account_uuid", "str", TRUE, None, [max_length |-> 26]),
     Field("created_timestamp", "datetime", FALSE, NowFactory, [any |-> TRUE]) >>,
   MINIMAL_FIELDS |-> {"action_date", "action", "currency", "total_amount", "fee_amount"},
   to_minimal_dict |-> "json",
   example |-> <<
       [k |-> "id", v |-> Integer(1)],
       [k |-> "uuid", v |-> Str("01H8X7Y7Z7QWERTYUIOPASDFGH")],
       [k |-> "settlement_uuid", v |-> Str("01H8X7Y7Z7QWERTYUIOPASDFGZ")],
       [k |-> "action_date", v |-> Str("2023-11-01")],
       [k |-> "action", v |-> Str("PAYMENT")],
       [k |-> "currency", v |-> Str("USD")],
       [k |-> "total_amount", v |-> Str("1234.567")],
       [k |-> "fee_amount", v |-> Str("123.456")],
       [k |-> "tax1_amount", v |-> Str("12.345")],
       [k |-> "tax2_amount", v |-> Str("0.000")],
       [k |-> "tax3_amount", v |-> Str("0.000")],
       [k |-> "tax4_amount", v |-> Str("0.000")],
       [k |-> "reject_code", v |-> None],
       [k |-> "message", v |-> Str("Payment processed successfully")],
       [k |-> "ledger_account_transition_uuid", v |-> Str("01H8X7Y7Z7QWERTYUIOPASDFGA")],
       [k |-> "credit_ledger_account_uuid", v |-> Str("01H8X7Y7Z7QWERTYUIOPASDFGB")],
       [k |-> "debit_ledger_account_uuid", v |-> Str("01H8X7Y7Z7QWERTYUIOPASDFGC")],
       [k |-> "created_timestamp", v |-> Str("2023-10-27T10:00:00.123456")] >>,
   main |-> <<"----begin example: settlement-action----", "----begin minmal example: settlement-action----", "----end: settlement-action----">>]

\* SettlementMutation: src/src/demo/models/ebb/settlement_mutation.py
SettlementMutation ==
  [name |-> "SettlementMutation", table |-> "settlement_mutation",
   fields |-> <<
     Field("id", "int", FALSE, Required, [gt |-> 0]),
     Field("mutation_action", "literal", FALSE, Required, [vals |-> {"UPDATE", "DELETE"}]),
     Field("mutation_timestamp", "datetime", FALSE, NowFactory, [any |-> TRUE]),
     Field("settlement_id", "int", FALSE, Required, [gt |-> 0]),
     Field("uuid", "str", FALSE, Required, [max_length |-> 26]),
     Field("settlement_date", "date", TRUE, None, [any |-> TRUE]),
     Field("billing_entity_uuid", "str", TRUE, None, [max_length |-> 26]),
     Field("entity_uuid", "str", TRUE, None, [max_length |-> 13]),
     Field("alternate_id", "str", TRUE, None, [max_length |-> 30]),
     Field("payable_receivable", "literal", TRUE, None, [vals |-> {"PAYABLE", "RECEIVABLE"}]),
     Field("currency", "str", TRUE, None, [max_length |-> 3]),
     Field("total_amount", "decimal", TRUE, None, [max_digits |-> 12, decimal_places |-> 3]),
     Field("fee_amount", "decimal", TRUE, None, [max_digits |-> 12, decimal_places |-> 3]),
     Field("tax1_amount", "decimal", TRUE, None, [max_digits |-> 12, decimal_places |-> 3]),
     Field("tax2_amount", "decimal", TRUE, None, [max_digits |-> 12, decimal_places |-> 3]),
     Field("tax3_amount", "decimal", TRUE, None, [max_digits |-> 12, decimal_places |-> 3]),
     Field("tax4_amount", "decimal", TRUE, None, [max_digits |-> 12, decimal_places |-> 3]),
     Field("lookup_ledger_account_key", "str", TRUE, None, [max_length |-> 32]),
     Field("gl_code", "str", TRUE, None, [max_length |-> 40]),
     Field("item_code", "str", TRUE, None, [max_length |-> 30]),
     Field("last_invoice_num", "str", TRUE, None, [max_length |-> 30]),
     Field("request_uuid", "str", TRUE, None, [max_length |-> 26]),
     Field("created_timestamp", "datetime", TRUE, None, [any |-> TRUE]),
     Field("modified_timestamp", "datetime", TRUE, None, [any |-> TRUE]) >>,
   MINIMAL_FIELDS |-> {"mutation_action", "payable_receivable", "currency", "total_amount", "fee_amount"},
   to_minimal_dict |-> "json",
   example |-> <<
       [k |-> "id", v |-> Integer(1)],
       [k |-> "mutation_action", v |-> Str("UPDATE")],
       [k |-> "mutation_timestamp", v |-> Str("2023-10-27T11:00:00.123456")],
       [k |-> "settlement_id", v |-> Integer(123)],
       [k |-> "uuid", v |-> Str("01H8X7Y7Z7QWERTYUIOPASDFGH")],
       [k |-> "settlement_date", v |-> Str("2023-11-01")],
       [k |-> "billing_entity_uuid", v |-> Str("01H8X7Y7Z7QWERTYUIOPASDFGZ")],
       [k |-> "entity_uuid", v |-> Str("01H8X7Y7Z7QWE")],
       [k |-> "alternate_id", v |-> Str("SETTLE-2023-001")],
       [k |-> "payable_receivable", v |-> Str("PAYABLE")],
       [k |-> "currency", v |-> Str("USD")],
       [k |-> "total_amount", v |-> Str("1234.567")],
       [k |-> "fee_amount", v |-> Str("123.456")],
       [k |-> "tax1_amount", v |-> Str("12.345")],
       [k |-> "tax2_amount", v |-> Str("0.000")],
       [k |-> "tax3_amount", v |-> Str("0.000")],
       [k |-> "tax4_amount", v |-> Str("0.000")],
       [k |-> "lookup_ledger_account_key", v |-> Str("MERCHANT_PAYABLE_USD")],
       [k |-> "gl_code", v |-> Str("2100-001")],
       [k |-> "item_code", v |-> Str("MERCHANT_FEE")],
       [k |-> "last_invoice_num", v |-> Str("INV-2023-001234")],
       [k |-> "request_uuid", v |-> Str("01H8X7Y7Z7QWERTYUIOPASDFGA")],
       [k |-> "created_timestamp", v |-> Str("2023-10-27T10:00:00.123456")],
       [k |-> "modified_timestamp", v |-> Str("2023-10-27T10:00:00.123456")] >>,
   main |-> <<"----begin example: settlement-mutation----", "----begin minmal example: settlement-mutation----", "----end: settlement-mutation----">>]

\* SkipFeeCategoryLexiTag: src/src/demo/models/ebb/skip_fee_category_lexi_tag.py
SkipFeeCategoryLexiTag ==
  [name |-> "SkipFeeCategoryLexiTag", table |-> "skip_fee_category_lexi_tag",
   fields |-> <<
     Field("id", "int", FALSE, Required, [gt |-> 0]),
     Field("uuid", "str", FALSE, Required, [max_length |-> 26]),
     Field("fee_category", "str", FALSE, Required, [max_length |-> 25]),
     Field("created_timestamp", "datetime", FALSE, NowFactory, [any |-> TRUE]) >>,
   MINIMAL_FIELDS |-> {"fee_category"},
   to_minimal_dict |-> "json",
   example |-> <<
       [k |-> "id", v |-> Integer(1)],
       [k |-> "uuid", v |-> Str("01H8X7Y7Z7QWERTYUIOPASDFGH")],
       [k |-> "fee_category", v |-> Str("INTERNAL_FEE")],
       [k |-> "created_timestamp", v |-> Str("2023-10-27T10:00:00.123456")] >>,
   main |-> <<"----begin example: skip-fee-category-lexi-tag----", "----begin minmal example: skip-fee-category-lexi-tag----", "----end: skip-fee-category-lexi-tag----">>]

\* TierDetail: src/src/demo/models/ebb/tier_detail.py
TierDetail ==
  [name |-> "TierDetail", table |-> "tier_detail",
   fields |-> <<
     Field("id", "int", FALSE, Required, [gt |-> 0]),
     Field("uuid", "str", FALSE, Required, [max_length |-> 26]),
     Field("tiered_rule_uuid", "str", FALSE, Required, [max_length |-> 26]),
     Field("min_units", "decimal", TRUE, None, [max_digits |-> 12, decimal_places |-> 4]),
     Field("min_amount", "decimal", TRUE, None, [max_digits |-> 12, decimal_places |-> 3]),
     Field("currency", "str", TRUE, None, [max_length |-> 3]),
     Field("rate_fee_category", "str", FALSE, Required, [max_length |-> 25]),
     Field("rate_fee_code", "str", FALSE, Required, [max_length |-> 25]),
     Field("short_desc", "str", FALSE, Required, [max_length |-> 40]),
     Field("created_timestamp", "datetime", FALSE, NowFactory, [any |-> TRUE]),
     Field("modified_timestamp", "datetime", FALSE, NowFactory, [any |-> TRUE]),
     Field("audit_id", "str", TRUE, None, [max_length |-> 26]) >>,
   MINIMAL_FIELDS |-> {"min_units", "min_amount", "currency", "rate_fee_category", "rate_fee_code", "short_desc"},
   to_minimal_dict |-> "json",
   example |-> <<
       [k |-> "id", v |-> Integer(1)],
       [k |-> "uuid", v |-> Str("01H8X7Y7Z7QWERTYUIOPASDFGH")],
       [k |-> "tiered_rule_uuid", v |-> Str("01H8X7Y7Z7QWERTYUIOPASDFGZ")],
       [k |-> "min_units", v |-> Str("1000.0000")],
       [k |-> "min_amount", v |-> Str("100.000")],
       [k |-> "currency", v |-> Str("USD")],
       [k |-> "rate_fee_category", v |-> Str("VOLUME_DISCOUNT")],
       [k |-> "rate_fee_code", v |-> Str("TIER_1_DISCOUNT")],
       [k |-> "short_desc", v |-> Str("Tier 1: 1000+ units")],
       [k |-> "created_timestamp", v |-> Str("2023-10-27T10:00:00.123456")],
       [k |-> "modified_timestamp", v |-> Str("2023-10-27T10:00:00.123456")],
       [k |-> "audit_id", v |-> Str("01H8X7Y7Z7QWERTYUIOPASDFGA")] >>,
   main |-> <<"----begin example: tier-detail----", "----begin minmal example: tier-detail----", "----end: tier-detail----">>]

\* TieredPricing: src/src/demo/models/ebb/tiered_pricing.py
TieredPricing ==
  [name |-> "TieredPricing", table |-> "tiered_pricing",
   fields |-> <<
     Field("id", "int", FALSE, Required, [gt |-> 0]),
     Field("uuid", "str", FALSE, Required, [max_length |-> 26]),
     Field("billing_entity_uuid", "str", FALSE, Required, [max_length |-> 26]),
     Field("tiered_rule_uuid", "str", FALSE, Required, [max_length |-> 26]),
     Field("effective_date", "date", FALSE, Required, [any |-> TRUE]),
     Field("deleted_date", "date", TRUE, None, [any |-> TRUE]),
     Field("created_timestamp", "datetime", FALSE, NowFactory, [any |-> TRUE]),
     Field("modified_timestamp", "datetime", FALSE, NowFactory, [any |-> TRUE]),
     Field("audit_id", "str", TRUE, None, [max_length |-> 26]) >>,
   MINIMAL_FIELDS |-> {"effective_date"},
   to_minimal_dict |-> "json",
   example |-> <<
       [k |-> "id", v |-> Integer(1)],
       [k |-> "uuid", v |-> Str("01H8X7Y7Z7QWERTYUIOPASDFGH")],
       [k |-> "billing_entity_uuid", v |-> Str("01H8X7Y7Z7QWERTYUIOPASDFGZ")],
       [k |-> "tiered_rule_uuid", v |-> Str("01H8X7Y7Z7QWERTYUIOPASDFGA")],
       [k |-> "effective_date", v |-> Str("2023-11-01")],
       [k |-> "deleted_date", v |-> None],
       [k |-> "created_timestamp", v |-> Str("2023-10-27T10:00:00.123456")],
       [k |-> "modified_timestamp", v |-> Str("2023-10-27T10:00:00.123456")],
       [k |-> "audit_id", v |-> Str("01H8X7Y7Z7QWERTYUIOPASDFGB")] >>,
   main |-> <<"----begin example: tiered-pricing----", "----begin minmal example: tiered-pricing----", "----end: tiered-pricing----">>]

\* TieredQualifier: src/src/demo/models/ebb/tiered_qualifier.py
TieredQualifier ==
  [name |-> "TieredQualifier", table |-> "tiered_qualifier",
   fields |-> <<
     Field("id", "int", FALSE, Required, [gt |-> 0]),
     Field("uuid", "str", FALSE, Required, [max_length |-> 26]),
     Field("tiered_rule_uuid", "str", FALSE, Required, [max_length |-> 26]),
     Field("fee_category", "str", FALSE, Required, [max_length |-> 25]),
     Field("fee_code", "str", FALSE, Required, [max_length |-> 25]),
     Field("negate_fee_summary", "int", FALSE, Integer(0), [any |-> TRUE]),
     Field("disqualify", "int", FALSE, Integer(0), [any |-> TRUE]),
     Field("created_timestamp", "datetime", FALSE, NowFactory, [any |-> TRUE]),
     Field("audit_id", "str", TRUE, None, [max_length |-> 26]) >>,
   MINIMAL_FIELDS |-> {"fee_category", "fee_code", "negate_fee_summary", "disqualify"},
   to_minimal_dict |-> "json",
   example |-> <<
       [k |-> "id", v |-> Integer(1)],
       [k |-> "uuid", v |-> Str("01H8X7Y7Z7QWERTYUIOPASDFGH")],
       [k |-> "tiered_rule_uuid", v |-> Str("01H8X7Y7Z7QWERTYUIOPASDFGZ")],
       [k |-> "fee_category", v |-> Str("TRANSACTION")],
       [k |-> "fee_code", v |-> Str("PAYMENT_FEE")],
       [k |-> "negate_fee_summary", v |-> Integer(0)],
       [k |-> "disqualify", v |-> Integer(0)],
       [k |-> "created_timestamp", v |-> Str("2023-10-27T10:00:00.123456")],
       [k |-> "audit_id", v |-> Str("01H8X7Y7Z7QWERTYUIOPASDFGA")] >>,
   main |-> <<"----begin example: tiered-qualifier----", "----begin minmal example: tiered-qualifier----", "----end: tiered-qualifier----">>]

\* TieredRule: src/src/demo/models/ebb/tiered_rule.py
TieredRule ==
  [name |-> "TieredRule", table |-> "tiered_rule",
   fields |-> <<
     Field("id", "int", FALSE, Required, [gt |-> 0]),
     Field("uuid", "str", FALSE, Required, [max_length |-> 26]),
     Field("rule_status", "literal", FALSE, Str("SETUP"), [vals |-> {"SETUP", "ACTIVE", "DEPRECATED", "DELETED"}]),
     Field("rule_alias", "str", TRUE, None, [max_length |-> 25]),
     Field("tiered_basis", "literal", FALSE, Required, [vals |-> {"QUANTITY", "VOLUME", "BOTH"}]),
     Field("tiered_model", "literal", FALSE, Required, [vals |-> {"APPLY_TO_TIER", "APPLY_TO_ALL"}]),
     Field("target_entity_type", "literal", FALSE, Required, [vals |-> {"MERCHANT", "RESELLER", "DEVELOPER"}]),
     Field("short_desc", "str", FALSE, Required, [max_length |-> 40]),
     Field("full_desc", "str", TRUE, None, [max_length |-> 255]),
     Field("created_timestamp", "datetime", FALSE, NowFactory, [any |-> TRUE]),
     Field("modified_timestamp", "datetime", FALSE, NowFactory, [any |-> TRUE]),
     Field("audit_id", "str", TRUE, None, [max_length |-> 26]) >>,
   MINIMAL_FIELDS |-> {"rule_status", "rule_alias", "tiered_basis", "tiered_model", "target_entity_type", "short_desc"},
   to_minimal_dict |-> "json",
   example |-> <<
       [k |-> "id", v |-> Integer(1)],
       [k |-> "uuid", v |-> Str("01H8X7Y7Z7QWERTYUIOPASDFGH")],
       [k |-> "rule_status", v |-> Str("ACTIVE")],
       [k |-> "rule_alias", v |-> Str("VOLUME_DISCOUNT")],
       [k |-> "tiered_basis", v |-> Str("VOLUME")],
       [k |-> "tiered_model", v |-> Str("APPLY_TO_TIER")],
       [k |-> "target_entity_type", v |-> Str("MERCHANT")],
       [k |-> "short_desc", v |-> Str("Volume Based Discount Tiers")],
       [k |-> "full_desc", v |-> Str("Tiered discount structure based on transaction volume for merchants")],
       [k |-> "created_timestamp", v |-> Str("2023-10-27T10:00:00.123456")],
       [k |-> "modified_timestamp", v |-> Str("2023-10-27T10:00:00.123456")],
       [k |-> "audit_id", v |-> Str("01H8X7Y7Z7QWERTYUIOPASDFGA")] >>,
   main |-> <<"----begin example: tiered-rule----", "----begin minmal example: tiered-rule----", "----end: tiered-rule----">>]

\* InvoiceInfo: demo.models.ebb.invoice_info, imported by main.py. Its fields
\* are those main.py passes to the constructor; declarations follow the
\* invoice_info_mutation table, which mirrors the invoice_info columns.
InvoiceInfo ==
  [name |-> "InvoiceInfo", table |-> "invoice_info",
   fields |-> <<
     Field("id", "int", FALSE, Required, [gt |-> 0]),
     Field("uuid", "str", FALSE, Required, [max_length |-> 26]),
     Field("billing_entity_uuid", "str", FALSE, Required, [max_length |-> 26]),
     Field("entity_uuid", "str", FALSE, Required, [max_length |-> 13]),
     Field("alternate_id", "str", TRUE, None, [max_length |-> 25]),
     Field("billing_date", "date", FALSE, Required, [any |-> TRUE]),
     Field("invoice_num", "str", FALSE, Required, [max_length |-> 30]),
     Field("currency", "str", FALSE, Required, [max_length |-> 3]),
     Field("total_amount", "decimal", FALSE, Required, [max_digits |-> 12, decimal_places |-> 3]),
     Field("document_uuid", "str", TRUE, None, [max_length |-> 26]),
     Field("request_uuid", "str", FALSE, Required, [max_length |-> 26]),
     Field("created_timestamp", "datetime", FALSE, NowFactory, [any |-> TRUE]) >>,
   MINIMAL_FIELDS |-> {"billing_date", "invoice_num", "currency", "total_amount"},
   to_minimal_dict |-> "json"]

\* Every entity model of src/demo/models/ebb.
EntityTypes ==
  {
   AdjustAction, AdjustActionType, AdjustReason, AppMeterAction, AppMeterActionFeeCode,
   AppMeterActionType, AppSubActionError, AutoAdjustAdvice, AutoAdjustQualifier, AutoAdjustRule,
   BillingArchetype, BillingEntity, BillingEntityConfig, BillingEventHistory, BillingHierarchy,
   BillingHierarchyCycle, BillingHierarchyType, BillingPseudoEntity, BillingSchedule, CellularAction,
   CellularActionFeeCode, ConsumerFailureHistory, CycleValidation, CycleValidationMutation, DeserializableFailure,
   FeeCategory, FeeCode, FeeCodeApp, FeeCodeLedgerAccount, FeeCtd,
   FeeRate, FeeRateErrorReport, FeeRateReportActionError, FeeSummary, FeeTax,
   FeeYtd, FlywaySchemaHistory, InvoiceAllianceCode, InvoiceInfoAmount, InvoiceInfoMutation,
   InvoiceInfoSettlement, InvoiceInfoSettlementMutation, JobAssassinationContract, LedgerAccount, LedgerAccountAction,
   LedgerAccountBalance, LedgerAccountKey, LedgerAccountKeyPurpose, LedgerAccountPurpose, LedgerAccountSettlement,
   LedgerAccountTransition, LedgerJournal, LedgerJournalMutation, LexiAttribute, LexiRule,
   Look, LookData, MerchantDetail, MiscActionFeeCode, MiscActionType,
   MiscSpecifier, ModelFeeSummary, MonetaryAdjustment, MonetaryAdjustmentMutation, MonetaryRuleAlias,
   MonetaryRuleSet, MonetaryRuleSetRule, PartnerConfig, PlanAction, PlanActionError,
   PlanActionType, ProcessingGroupDates, ProcessingNote, ProcessingNoteMutation, PrototypeFeeRate,
   PrototypeFeeSet, RevenueAction, RevenueActionFeeCode, RevenueShareGroup, ServerConfig,
   Settlement, SettlementAction, SettlementMutation, SkipFeeCategoryLexiTag, TierDetail,
   TieredPricing, TieredQualifier, TieredRule }
\* The class a constructor call names.
TypeNamed(name) ==
  CHOOSE T \in EntityTypes \cup {InvoiceInfo} : T.name = name

\* ---------------------------------------------------------- pydantic
FieldNames(T) ==
  {T.fields[i].n : i \in 1..Len(T.fields)}
\* pydantic-core's max_digits / decimal_places check.
DecimalFits(v, c) ==
  LET decimals == v.places
      coeffDigits == Len(IntStr(v.coeff))
      digits == IF v.places > coeffDigits THEN v.places ELSE coeffDigits
  IN /\ decimals <= c.decimal_places
     /\ digits <= c.max_digits
     /\ digits - decimals <= c.max_digits - c.decimal_places
\* Validation of one supplied value against its field declaration.
ValidValue(f, v) ==
  IF v.t = "none" THEN f.nullable
  ELSE CASE f.k = "str" -> v.t = "str" /\ ("max_length" \in DOMAIN f.c => Len(v.s) <= f.c.max_length)
         [] f.k = "literal" -> v.t = "str" /\ v.s \in f.c.vals
         [] f.k = "enum" -> v.t = "enum" /\ v.cls = f.c.cls /\ v.value \in f.c.vals
         [] f.k = "int" -> /\ v.t = "int"
                           /\ "gt" \in DOMAIN f.c => v.i > f.c.gt
                           /\ "ge" \in DOMAIN f.c => v.i >= f.c.ge
         [] f.k = "decimal" -> v.t = "decimal" /\ DecimalFits(v, f.c)
         [] OTHER -> v.t = f.k
\* datetime.datetime.now() at wall-clock reading `clock`.
Now(clock) ==
  Datetime(2026, 1, 1, 0, 0, 0, clock)
\* The value a field takes: the keyword argument, else its default.
FieldValue(f, kwargs, clock) ==
  IF f.n \in DOMAIN kwargs THEN kwargs[f.n]
  ELSE IF f.dflt = NowFactory THEN Now(clock)
  ELSE f.dflt
\* A constructor that takes a missing required field as None.
Construct_missing_as_none(T, kwargs, clock) ==
  LET bad == {T.fields[i].n : i \in {j \in 1..Len(T.fields) :
                  /\ T.fields[j].n \in DOMAIN kwargs
                  /\ ~ValidValue(T.fields[j], kwargs[T.fields[j].n])}}
  IN IF bad # {}
     THEN [ok |-> FALSE, cls |-> T.name, errors |-> bad]
     ELSE [ok |-> TRUE, cls |-> T.name,
           values |-> [i \in 1..Len(T.fields) |->
                         [k |-> T.fields[i].n,
                          v |-> IF T.fields[i].n \notin DOMAIN kwargs /\ T.fields[i].dflt = Required
                                THEN None
                                ELSE FieldValue(T.fields[i], kwargs, clock)]]]
\* T(**kwargs): the instance, its attributes in declaration order, or a
\* ValidationError naming the offending fields.
Construct(T, kwargs, clock) ==
  LET bad == {T.fields[i].n : i \in {j \in 1..Len(T.fields) :
                  IF T.fields[j].n \in DOMAIN kwargs
                  THEN ~ValidValue(T.fields[j], kwargs[T.fields[j].n])
                  ELSE T.fields[j].dflt = Required}}
  IN IF bad # {}
     THEN [ok |-> FALSE, cls |-> T.name, errors |-> bad]
     ELSE [ok |-> TRUE, cls |-> T.name,
           values |-> [i \in 1..Len(T.fields) |->
                         [k |-> T.fields[i].n, v |-> FieldValue(T.fields[i], kwargs, clock)]]]
\* BaseModel.model_dump(): every field, Python objects unchanged.
model_dump(obj) ==
  obj.values
\* bytes.decode('utf-8', errors='replace'), the json_encoders entry for
\* bytes: a byte that is not valid UTF-8 becomes U+FFFD.
RECURSIVE Utf8DecodeReplace(_)
Utf8DecodeReplace(raw) ==
  IF raw = "" THEN ""
  ELSE IF Len(raw) >= 4 /\ SubSeq(raw, 1, 4) = "\\xff"
       THEN "\\ufffd" \o Utf8DecodeReplace(SubSeq(raw, 5, Len(raw)))
       ELSE Head(raw) \o Utf8DecodeReplace(Tail(raw))
\* The value json.loads gives back for what model_dump_json wrote: decimals
\* as their str, dates and datetimes through json_encoders (isoformat), an
\* enum member as its value, bytes decoded as UTF-8.
JsonValue(v) ==
  CASE v.t = "decimal" -> Str(DecimalStr(v))
    [] v.t = "date" -> Str(DateIso(v))
    [] v.t = "datetime" -> Str(DatetimeIso(v, "T"))
    [] v.t = "enum" -> Str(v.value)
    [] v.t = "bytes" -> Str(Utf8DecodeReplace(v.raw))
    [] OTHER -> v
\* json.loads(self.model_dump_json(include=include))
model_dump_json(obj, include) ==
  LET d == Filter(obj.values, include)
  IN [i \in 1..Len(d) |-> [k |-> d[i].k, v |-> JsonValue(d[i].v)]]
\* The Python value pydantic validates from the JSON value j for field f:
\* a string is parsed as a decimal, a date or a datetime, looked up as an
\* enum value or encoded to bytes as UTF-8; other values pass as they are.
ParseJson(f, j) ==
  LET DigitVal(c) == CHOOSE d \in 0..9 : Digit(d) = c
      RECURSIVE Num(_)
      Num(s) == IF s = "" THEN 0
                ELSE 10 * Num(SubSeq(s, 1, Len(s) - 1)) + DigitVal(SubSeq(s, Len(s), Len(s)))
      RECURSIVE Utf8Encode(_)
      Utf8Encode(s) ==
        IF s = "" THEN ""
        ELSE IF Len(s) >= 6 /\ SubSeq(s, 1, 6) = "\\ufffd"
             THEN "\\xef\\xbf\\xbd" \o Utf8Encode(SubSeq(s, 7, Len(s)))
             ELSE Head(s) \o Utf8Encode(Tail(s))
      ParseDecimal(s) ==
        LET neg == SubSeq(s, 1, 1) = "-"
            body == IF neg THEN Tail(s) ELSE s
            dots == {i \in 1..Len(body) : SubSeq(body, i, i) = "."}
        IN IF dots = {} THEN Decimal(neg, Num(body), 0)
           ELSE LET p == CHOOSE i \in dots : TRUE
                IN Decimal(neg, Num(SubSeq(body, 1, p - 1) \o SubSeq(body, p + 1, Len(body))),
                           Len(body) - p)
      ParseDate(s) ==
        Date(Num(SubSeq(s, 1, 4)), Num(SubSeq(s, 6, 7)), Num(SubSeq(s, 9, 10)))
      ParseDatetime(s) ==
        Datetime(Num(SubSeq(s, 1, 4)), Num(SubSeq(s, 6, 7)), Num(SubSeq(s, 9, 10)),
                 Num(SubSeq(s, 12, 13)), Num(SubSeq(s, 15, 16)), Num(SubSeq(s, 18, 19)),
                 IF Len(s) > 19 THEN Num(SubSeq(s, 21, 26)) ELSE 0)
  IN IF j.t # "str" THEN j
     ELSE CASE f.k = "decimal" -> ParseDecimal(j.s)
            [] f.k = "date" -> ParseDate(j.s)
            [] f.k = "datetime" -> ParseDatetime(j.s)
            [] f.k = "enum" -> IF j.s \in f.c.vals THEN EnumMember(f.c.cls, j.s) ELSE j
            [] f.k = "bytes" -> Bytes(Utf8Encode(j.s))
            [] OTHER -> j
\* T.model_validate_json(text), text holding the JSON object `items`.
model_validate_json(T, items, clock) ==
  Construct(T,
            [n \in Keys(items) |->
               ParseJson(T.fields[CHOOSE i \in 1..Len(T.fields) : T.fields[i].n = n], Get(items, n))],
            clock)
\* to_minimal_dict leaving out the fields that are None.
to_minimal_dict_exclude_none(obj) ==
  LET T == TypeNamed(obj.cls)
      present == {obj.values[i].k : i \in {j \in 1..Len(obj.values) : obj.values[j].v # None}}
  IN IF T.to_minimal_dict = "json"
     THEN model_dump_json(obj, T.MINIMAL_FIELDS \cap present)
     ELSE Filter(model_dump(obj), T.MINIMAL_FIELDS \cap present)
\* to_minimal_dict through model_dump for every type.
to_minimal_dict_python(obj) ==
  Filter(model_dump(obj), TypeNamed(obj.cls).MINIMAL_FIELDS)
\* Minimal<T>Mixin.to_minimal_dict
to_minimal_dict(obj) ==
  LET T == TypeNamed(obj.cls)
  IN IF T.to_minimal_dict = "json"
     THEN model_dump_json(obj, T.MINIMAL_FIELDS)
     ELSE Filter(model_dump(obj), T.MINIMAL_FIELDS)

\* ------------------------------------------------------ networkx.DiGraph
\* G._node maps a node to its attribute dict; G._adj maps a node to its
\* successors. Both are dicts, so both keep insertion order.
DiGraph ==
  [_node |-> <<>>, _adj |-> <<>>]
\* dict.update(other): a present key keeps its place and takes the new value,
\* a new key is appended.
RECURSIVE DictUpdate(_, _)
DictUpdate(d, other) ==
  IF other = <<>> THEN d
  ELSE LET e == Head(other)
           d1 == IF HasKey(d, e.k)
                 THEN [i \in 1..Len(d) |-> IF d[i].k = e.k THEN e ELSE d[i]]
                 ELSE Append(d, e)
       IN DictUpdate(d1, Tail(other))
\* d[key] = value for a dict already holding key.
DictSet(d, key, value) ==
  [i \in 1..Len(d) |-> IF d[i].k = key THEN [k |-> key, v |-> value] ELSE d[i]]
\* add_node with a new node put in front of the ones already present.
add_node_prepend(G, n, attr) ==
  IF ~HasKey(G._node, n)
  THEN [_node |-> <<[k |-> n, v |-> attr]>> \o G._node,
        _adj |-> <<[k |-> n, v |-> <<>>]>> \o G._adj]
  ELSE [G EXCEPT !._node = DictSet(G._node, n, DictUpdate(Get(G._node, n), attr))]
\* G.add_node(n, **attr)
add_node(G, n, attr) ==
  IF ~HasKey(G._node, n)
  THEN [_node |-> Append(G._node, [k |-> n, v |-> attr]),
        _adj |-> Append(G._adj, [k |-> n, v |-> <<>>])]
  ELSE [G EXCEPT !._node = DictSet(G._node, n, DictUpdate(Get(G._node, n), attr))]
\* add_edge recording an unknown endpoint in the adjacency only.
EnsureNode_adj_only(G, n) ==
  IF HasKey(G._adj, n) THEN G
  ELSE [G EXCEPT !._adj = Append(G._adj, [k |-> n, v |-> <<>>])]
\* The implicit node creation of add_edge: an unknown endpoint enters the
\* graph with an empty attribute dict.
EnsureNode(G, n) ==
  IF HasKey(G._adj, n) THEN G
  ELSE [_node |-> Append(G._node, [k |-> n, v |-> <<>>]),
        _adj |-> Append(G._adj, [k |-> n, v |-> <<>>])]
\* add_edge creating an unknown target before an unknown source.
add_edge_target_first(G, u, v) ==
  LET G1 == EnsureNode(EnsureNode(G, v), u)
      nbrs == Get(G1._adj, u)
  IN IF \E i \in 1..Len(nbrs) : nbrs[i] = v THEN G1
     ELSE [G1 EXCEPT !._adj = DictSet(G1._adj, u, Append(nbrs, v))]
\* add_edge recording the successor without making the target a node.
add_edge_source_only(G, u, v) ==
  LET G1 == EnsureNode(G, u)
      nbrs == Get(G1._adj, u)
  IN IF \E i \in 1..Len(nbrs) : nbrs[i] = v THEN G1
     ELSE [G1 EXCEPT !._adj = DictSet(G1._adj, u, Append(nbrs, v))]
\* G.add_edge(u, v); add_edges_from applies the same steps to each pair.
add_edge(G, u, v) ==
  LET G1 == EnsureNode(EnsureNode(G, u), v)
      nbrs == Get(G1._adj, u)
  IN IF \E i \in 1..Len(nbrs) : nbrs[i] = v THEN G1
     ELSE [G1 EXCEPT !._adj = DictSet(G1._adj, u, Append(nbrs, v))]
\* list(G.edges()): for every node in G._adj order, its successors in order.
\* (G.nodes(data=True) is G._node in its own order.)
RECURSIVE EdgesFrom(_)
EdgesFrom(adj) ==
  IF adj = <<>> THEN <<>>
  ELSE [i \in 1..Len(Head(adj).v) |-> <<Head(adj).k, Head(adj).v[i]>>] \o EdgesFrom(Tail(adj))
edges(G) ==
  EdgesFrom(G._adj)

\* ------------------------------------------------------------- main.py
\* A nested dict as a value.
Dict(items) ==
  [t |-> "dict", items |-> items]
\* create_node_data keeping every attribute in "others".
create_node_data_unsplit(pydantic_obj, table_name) ==
  << [k |-> "table", v |-> Str(table_name)],
     [k |-> "minimal", v |-> Dict(to_minimal_dict(pydantic_obj))],
     [k |-> "others", v |-> Dict(model_dump(pydantic_obj))] >>
create_node_data(pydantic_obj, table_name) ==
  LET full_dict == model_dump(pydantic_obj)
      minimal_dict == to_minimal_dict(pydantic_obj)
      others_dict == Filter(full_dict, Keys(full_dict) \ Keys(minimal_dict))
  IN << [k |-> "table", v |-> Str(table_name)],
        [k |-> "minimal", v |-> Dict(minimal_dict)],
        [k |-> "others", v |-> Dict(others_dict)] >>
\* The constructor calls of create_pydantic_objects: key in the returned
\* dict, class, keyword arguments.
SampleArgs ==
  <<
     [k |-> "merchant_billing_entity", cls |-> "BillingEntity", kwargs |-> [
        id |-> Integer(1195),
        uuid |-> Str("JW8H2B9BT6B11R2HHXY3HYQCN6"),
        entity_uuid |-> Str("062X8PVY3XWB1"),
        entity_type |-> EnumMember("EntityType", "MERCHANT"),
        name |-> Str("MerchantMcMerchantface"),
        created_timestamp |-> Datetime(2025, 2, 26, 17, 6, 39, 670150),
        modified_timestamp |-> Datetime(2025, 2, 26, 17, 6, 39, 670150)]],
     [k |-> "clover_billing_entity", cls |-> "BillingEntity", kwargs |-> [
        id |-> Integer(1),
        uuid |-> Str("M4JT4XQCPWPMW7WGA4G1Z5NGED"),
        entity_uuid |-> Str("S7VJZXH057ZHC"),
        entity_type |-> EnumMember("EntityType", "RESELLER"),
        name |-> Str("Clover"),
        created_timestamp |-> Datetime(2025, 1, 30, 16, 37, 56, 379038),
        modified_timestamp |-> Datetime(2025, 1, 30, 16, 37, 56, 379038)]],
     [k |-> "us_support_billing_entity", cls |-> "BillingEntity", kwargs |-> [
        id |-> Integer(3),
        uuid |-> Str("8E7KTPHJRBHP16EQB5RS2P8D0Q"),
        entity_uuid |-> Str("V9Z9C6EX72SY2"),
        entity_type |-> EnumMember("EntityType", "RESELLER"),
        name |-> Str("US Customer Support"),
        created_timestamp |-> Datetime(2025, 1, 30, 16, 37, 56, 379038),
        modified_timestamp |-> Datetime(2025, 1, 30, 16, 37, 56, 379038)]],
     [k |-> "invoice_info", cls |-> "InvoiceInfo", kwargs |-> [
        id |-> Integer(6200),
        uuid |-> Str("NFX80F4EH68BEW08384RX7RBMC"),
        billing_entity_uuid |-> Str("JW8H2B9BT6B11R2HHXY3HYQCN6"),
        entity_uuid |-> Str("062X8PVY3XWB1"),
        alternate_id |-> Str("209225173886"),
        billing_date |-> Date(2025, 6, 1),
        invoice_num |-> Str("202506/000006200"),
        currency |-> Str("USD"),
        total_amount |-> Decimal(FALSE, 25883, 2),
        document_uuid |-> Str("RED0GSNS27W2XG1FQ25VVFEEXH"),
        request_uuid |-> Str("CW6456TXW4N934RVY27G5E5CDB"),
        created_timestamp |-> Datetime(2025, 6, 2, 15, 6, 43, 378289)]],
     [k |-> "fee_rate_1", cls |-> "FeeRate", kwargs |-> [
        id |-> Integer(267888),
        uuid |-> Str("J65DRB7XHQQ1RTYJSBSTQQBW7K"),
        billing_entity_uuid |-> Str("M4JT4XQCPWPMW7WGA4G1Z5NGED"),
        fee_category |-> Str("APP_SUB_3P_RETAIL"),
        fee_code |-> Str("MW63DAWPN6JGY.S"),
        currency |-> Str("USD"),
        effective_date |-> Date(2017, 2, 15),
        apply_type |-> EnumMember("ApplyType", "PER_ITEM"),
        per_item_amount |-> Decimal(FALSE, 999, 2),
        percentage |-> None,
        created_timestamp |-> Datetime(2025, 2, 25, 19, 36, 38, 626269),
        modified_timestamp |-> Datetime(2025, 2, 25, 19, 36, 38, 626269),
        audit_id |-> None]],
     [k |-> "fee_rate_2", cls |-> "FeeRate", kwargs |-> [
        id |-> Integer(272274),
        uuid |-> Str("82G1K56V4V17DXXQHGMR3C328W"),
        billing_entity_uuid |-> Str("M4JT4XQCPWPMW7WGA4G1Z5NGED"),
        fee_category |-> Str("APP_SUB_3P_RETAIL"),
        fee_code |-> Str("E2ATEB4GHYFCE.S"),
        currency |-> Str("USD"),
        effective_date |-> Date(2016, 2, 9),
        apply_type |-> EnumMember("ApplyType", "PER_ITEM"),
        per_item_amount |-> Decimal(FALSE, 5999, 2),
        percentage |-> None,
        created_timestamp |-> Datetime(2025, 2, 25, 19, 41, 8, 122154),
        modified_timestamp |-> Datetime(2025, 2, 25, 19, 41, 8, 122154),
        audit_id |-> None]],
     [k |-> "fee_rate_3", cls |-> "FeeRate", kwargs |-> [
        id |-> Integer(244655),
        uuid |-> Str("VWH1Q0V9SS6FNRD48BYZB9YA9A"),
        billing_entity_uuid |-> Str("M4JT4XQCPWPMW7WGA4G1Z5NGED"),
        fee_category |-> Str("APP_SUB_3P_RETAIL"),
        fee_code |-> Str("BCMPKE5Z10A38.S"),
        currency |-> Str("USD"),
        effective_date |-> Date(2017, 2, 17),
        apply_type |-> EnumMember("ApplyType", "PER_ITEM"),
        per_item_amount |-> Decimal(FALSE, 99, 0),
        percentage |-> None,
        created_timestamp |-> Datetime(2025, 2, 25, 19, 5, 31, 108052),
        modified_timestamp |-> Datetime(2025, 2, 25, 19, 5, 31, 108052),
        audit_id |-> None]],
     [k |-> "fee_rate_4", cls |-> "FeeRate", kwargs |-> [
        id |-> Integer(173),
        uuid |-> Str("2G767D60KKG18208768S4C1HM8"),
        billing_entity_uuid |-> Str("8E7KTPHJRBHP16EQB5RS2P8D0Q"),
        fee_category |-> Str("DEVICE_RETAIL"),
        fee_code |-> Str("RegisterPDVT"),
        currency |-> Str("USD"),
        effective_date |-> Date(2025, 1, 1),
        apply_type |-> EnumMember("ApplyType", "PER_ITEM"),
        per_item_amount |-> Decimal(FALSE, 1995, 2),
        percentage |-> None,
        created_timestamp |-> Datetime(2025, 1, 30, 16, 38, 2, 379723),
        modified_timestamp |-> Datetime(2025, 1, 30, 16, 38, 33, 706835),
        audit_id |-> Str("STEKRDE0YS244")]],
     [k |-> "fee_rate_5", cls |-> "FeeRate", kwargs |-> [
        id |-> Integer(193),
        uuid |-> Str("KG9ABT30FRKVX39VRV82CBDKJF"),
        billing_entity_uuid |-> Str("8E7KTPHJRBHP16EQB5RS2P8D0Q"),
        fee_category |-> Str("DEVICE_RETAIL_MOD"),
        fee_code |-> Str("RegisterPDVTIncl1st"),
        currency |-> Str("USD"),
        effective_date |-> Date(2025, 1, 1),
        apply_type |-> EnumMember("ApplyType", "PER_ITEM"),
        per_item_amount |-> Decimal(TRUE, 1995, 2),
        percentage |-> None,
        created_timestamp |-> Datetime(2025, 1, 30, 16, 38, 2, 480183),
        modified_timestamp |-> Datetime(2025, 1, 30, 16, 38, 33, 706835),
        audit_id |-> Str("STEKRDE0YS244")]],
     [k |-> "fee_rate_6", cls |-> "FeeRate", kwargs |-> [
        id |-> Integer(169),
        uuid |-> Str("DF6FE39FRQHVXJKVVN9WTDSGWX"),
        billing_entity_uuid |-> Str("8E7KTPHJRBHP16EQB5RS2P8D0Q"),
        fee_category |-> Str("PLAN_RETAIL"),
        fee_code |-> Str("RegisterPDVT"),
        currency |-> Str("USD"),
        effective_date |-> Date(2025, 1, 1),
        apply_type |-> EnumMember("ApplyType", "PER_ITEM"),
        per_item_amount |-> Decimal(FALSE, 4995, 2),
        percentage |-> None,
        created_timestamp |-> Datetime(2025, 1, 30, 16, 38, 2, 359401),
        modified_timestamp |-> Datetime(2025, 1, 30, 16, 38, 33, 706835),
        audit_id |-> Str("STEKRDE0YS244")]],
     [k |-> "fee_summary_1", cls |-> "FeeSummary", kwargs |-> [
        id |-> Integer(74347),
        uuid |-> Str("K576N1W35XYEVW7VH1JVDY1XRT"),
        billing_entity_uuid |-> Str("JW8H2B9BT6B11R2HHXY3HYQCN6"),
        billing_date |-> Date(2025, 6, 1),
        fee_category |-> Str("APP_SUB_3P_RETAIL"),
        fee_code |-> Str("MW63DAWPN6JGY.S"),
        currency |-> Str("USD"),
        total_period_units |-> Decimal(FALSE, 1, 0),
        abs_period_units |-> Decimal(FALSE, 1, 0),
        total_basis_amount |-> Decimal(FALSE, 0, 0),
        abs_basis_amount |-> Decimal(FALSE, 0, 0),
        total_fee_amount |-> Decimal(FALSE, 999, 2),
        fee_rate_uuid |-> Str("J65DRB7XHQQ1RTYJSBSTQQBW7K"),
        request_uuid |-> Str("KNFZA2P2E2KMGKMATSY1RSD8TY"),
        invoice_info_uuid |-> Str("NFX80F4EH68BEW08384RX7RBMC"),
        fee_code_ledger_account_uuid |-> Str("DMW4K1XGB16DAEQ2ZRSJACE1WS"),
        credit_ledger_account_uuid |-> Str("KBERX62EJMWD8KEVFZRX0H875Z"),
        debit_ledger_account_uuid |-> Str("5XNJ7KBDBGNKVRFZYMCZJ6G5E7"),
        exclude_from_invoice |-> Integer(0),
        created_timestamp |-> Datetime(2025, 6, 2, 14, 56, 15, 960436),
        modified_timestamp |-> Datetime(2025, 6, 2, 15, 6, 43, 387646)]],
     [k |-> "fee_summary_2", cls |-> "FeeSummary", kwargs |-> [
        id |-> Integer(74345),
        uuid |-> Str("4FM5SS3WW7WT7GZZWFMSS9YQP6"),
        billing_entity_uuid |-> Str("JW8H2B9BT6B11R2HHXY3HYQCN6"),
        billing_date |-> Date(2025, 6, 1),
        fee_category |-> Str("APP_SUB_3P_RETAIL"),
        fee_code |-> Str("E2ATEB4GHYFCE.S"),
        currency |-> Str("USD"),
        total_period_units |-> Decimal(FALSE, 1, 0),
        abs_period_units |-> Decimal(FALSE, 1, 0),
        total_basis_amount |-> Decimal(FALSE, 0, 0),
        abs_basis_amount |-> Decimal(FALSE, 0, 0),
        total_fee_amount |-> Decimal(FALSE, 5999, 2),
        fee_rate_uuid |-> Str("82G1K56V4V17DXXQHGMR3C328W"),
        request_uuid |-> Str("KNFZA2P2E2KMGKMATSY1RSD8TY"),
        invoice_info_uuid |-> Str("NFX80F4EH68BEW08384RX7RBMC"),
        fee_code_ledger_account_uuid |-> Str("2V1BQ7YMC6PJXESE3YA57EW31Q"),
        credit_ledger_account_uuid |-> Str("15WVBBCPN56BD7EGE5STR2R1EW"),
        debit_ledger_account_uuid |-> Str("2MV95DFMWYJ1KZZBGS3HX8F9XN"),
        exclude_from_invoice |-> Integer(0),
        created_timestamp |-> Datetime(2025, 6, 2, 14, 56, 15, 949495),
        modified_timestamp |-> Datetime(2025, 6, 2, 15, 6, 43, 387646)]],
     [k |-> "fee_summary_3", cls |-> "FeeSummary", kwargs |-> [
        id |-> Integer(74341),
        uuid |-> Str("MH2Q9759T1FKMP887PMRQFMV9R"),
        billing_entity_uuid |-> Str("JW8H2B9BT6B11R2HHXY3HYQCN6"),
        billing_date |-> Date(2025, 6, 1),
        fee_category |-> Str("APP_SUB_3P_RETAIL"),
        fee_code |-> Str("BCMPKE5Z10A38.S"),
        currency |-> Str("USD"),
        total_period_units |-> Decimal(FALSE, 1, 0),
        abs_period_units |-> Decimal(FALSE, 1, 0),
        total_basis_amount |-> Decimal(FALSE, 0, 0),
        abs_basis_amount |-> Decimal(FALSE, 0, 0),
        total_fee_amount |-> Decimal(FALSE, 99, 0),
        fee_rate_uuid |-> Str("VWH1Q0V9SS6FNRD48BYZB9YA9A"),
        request_uuid |-> Str("KNFZA2P2E2KMGKMATSY1RSD8TY"),
        invoice_info_uuid |-> Str("NFX80F4EH68BEW08384RX7RBMC"),
        fee_code_ledger_account_uuid |-> Str("AHZXC23GACNTQNYCX9S14PG914"),
        credit_ledger_account_uuid |-> Str("7FQZ30FPEWWM5MV65RY0ZB5D3G"),
        debit_ledger_account_uuid |-> Str("9X9TF60JDBMZQ7A0FHHK7E14W3"),
        exclude_from_invoice |-> Integer(0),
        created_timestamp |-> Datetime(2025, 6, 2, 14, 56, 15, 922833),
        modified_timestamp |-> Datetime(2025, 6, 2, 15, 6, 43, 387646)]],
     [k |-> "fee_summary_4", cls |-> "FeeSummary", kwargs |-> [
        id |-> Integer(74349),
        uuid |-> Str("VC74T4AJ9R5X148DSRS95R5PF3"),
        billing_entity_uuid |-> Str("JW8H2B9BT6B11R2HHXY3HYQCN6"),
        billing_date |-> Date(2025, 6, 1),
        fee_category |-> Str("DEVICE_RETAIL"),
        fee_code |-> Str("RegisterPDVT"),
        currency |-> Str("USD"),
        total_period_units |-> Decimal(FALSE, 3, 0),
        abs_period_units |-> Decimal(FALSE, 3, 0),
        total_basis_amount |-> Decimal(FALSE, 0, 0),
        abs_basis_amount |-> Decimal(FALSE, 0, 0),
        total_fee_amount |-> Decimal(FALSE, 5985, 2),
        fee_rate_uuid |-> Str("2G767D60KKG18208768S4C1HM8"),
        request_uuid |-> Str("KNFZA2P2E2KMGKMATSY1RSD8TY"),
        invoice_info_uuid |-> Str("NFX80F4EH68BEW08384RX7RBMC"),
        fee_code_ledger_account_uuid |-> Str("JZ4Q82HKC14JDAE8YYZZYWKB0X"),
        credit_ledger_account_uuid |-> Str("HSMJRPH5WVCCV4WKW04CX6ZJG5"),
        debit_ledger_account_uuid |-> Str("62PXBE9JK6QXA65WHY3G5G0K01"),
        exclude_from_invoice |-> Integer(0),
        created_timestamp |-> Datetime(2025, 6, 2, 14, 56, 15, 973521),
        modified_timestamp |-> Datetime(2025, 6, 2, 15, 6, 43, 387646)]],
     [k |-> "fee_summary_5", cls |-> "FeeSummary", kwargs |-> [
        id |-> Integer(74350),
        uuid |-> Str("9VEDCKTVN2PTAYAQ8TCQV3ZNGZ"),
        billing_entity_uuid |-> Str("JW8H2B9BT6B11R2HHXY3HYQCN6"),
        billing_date |-> Date(2025, 6, 1),
        fee_category |-> Str("DEVICE_RETAIL_MOD"),
        fee_code |-> Str("RegisterPDVTIncl1st"),
        currency |-> Str("USD"),
        total_period_units |-> Decimal(FALSE, 1, 0),
        abs_period_units |-> Decimal(FALSE, 1, 0),
        total_basis_amount |-> Decimal(FALSE, 0, 0),
        abs_basis_amount |-> Decimal(FALSE, 0, 0),
        total_fee_amount |-> Decimal(TRUE, 1995, 2),
        fee_rate_uuid |-> Str("KG9ABT30FRKVX39VRV82CBDKJF"),
        request_uuid |-> Str("KNFZA2P2E2KMGKMATSY1RSD8TY"),
        invoice_info_uuid |-> Str("NFX80F4EH68BEW08384RX7RBMC"),
        fee_code_ledger_account_uuid |-> Str("H1HH56GWY4VWTDP6VQ3977EKNG"),
        credit_ledger_account_uuid |-> Str("2SNQPEXR2T0PX6Y36NWQSRZNRJ"),
        debit_ledger_account_uuid |-> Str("62PXBE9JK6QXA65WHY3G5G0K01"),
        exclude_from_invoice |-> Integer(0),
        created_timestamp |-> Datetime(2025, 6, 2, 14, 56, 15, 979936),
        modified_timestamp |-> Datetime(2025, 6, 2, 15, 6, 43, 387646)]],
     [k |-> "fee_summary_6", cls |-> "FeeSummary", kwargs |-> [
        id |-> Integer(74351),
        uuid |-> Str("FD7GD3YK93ZZS4C1DA6C7W9AER"),
        billing_entity_uuid |-> Str("JW8H2B9BT6B11R2HHXY3HYQCN6"),
        billing_date |-> Date(2025, 6, 1),
        fee_category |-> Str("PLAN_RETAIL"),
        fee_code |-> Str("RegisterPDVT"),
        currency |-> Str("USD"),
        total_period_units |-> Decimal(FALSE, 1, 0),
        abs_period_units |-> Decimal(FALSE, 1, 0),
        total_basis_amount |-> Decimal(FALSE, 0, 0),
        abs_basis_amount |-> Decimal(FALSE, 0, 0),
        total_fee_amount |-> Decimal(FALSE, 4995, 2),
        fee_rate_uuid |-> Str("DF6FE39FRQHVXJKVVN9WTDSGWX"),
        request_uuid |-> Str("KNFZA2P2E2KMGKMATSY1RSD8TY"),
        invoice_info_uuid |-> Str("NFX80F4EH68BEW08384RX7RBMC"),
        fee_code_ledger_account_uuid |-> Str("GCCQKS6H40NBQKS6KC4F31WAZY"),
        credit_ledger_account_uuid |-> Str("HSMJRPH5WVCCV4WKW04CX6ZJG5"),
        debit_ledger_account_uuid |-> Str("62PXBE9JK6QXA65WHY3G5G0K01"),
        exclude_from_invoice |-> Integer(0),
        created_timestamp |-> Datetime(2025, 6, 2, 14, 56, 15, 987500),
        modified_timestamp |-> Datetime(2025, 6, 2, 15, 6, 43, 387646)]],
     [k |-> "settlement_1", cls |-> "Settlement", kwargs |-> [
        id |-> Integer(6256),
        uuid |-> Str("NH8V7V2V0CQ0BWCTGVN6QBV753"),
        settlement_date |-> Date(2025, 6, 1),
        billing_entity_uuid |-> Str("JW8H2B9BT6B11R2HHXY3HYQCN6"),
        entity_uuid |-> Str("062X8PVY3XWB1"),
        alternate_id |-> Str("209225173886"),
        payable_receivable |-> Str("RECEIVABLE"),
        currency |-> Str("USD"),
        total_amount |-> Decimal(FALSE, 999, 2),
        fee_amount |-> Decimal(FALSE, 999, 2),
        tax1_amount |-> Decimal(FALSE, 0, 0),
        tax2_amount |-> Decimal(FALSE, 0, 0),
        tax3_amount |-> Decimal(FALSE, 0, 0),
        tax4_amount |-> Decimal(FALSE, 0, 0),
        lookup_ledger_account_key |-> Str("Incur.App.E8HJHPCT8AR08"),
        gl_code |-> None,
        item_code |-> Str("E8HJHPCT8AR08"),
        last_invoice_num |-> Str("202506/000006200"),
        request_uuid |-> Str("CQ95HJ649AXSDG6RF4Z71Z8ATD"),
        created_timestamp |-> Datetime(2025, 6, 2, 16, 9, 51, 666639),
        modified_timestamp |-> Datetime(2025, 6, 2, 16, 9, 52, 0)]],
     [k |-> "settlement_2", cls |-> "Settlement", kwargs |-> [
        id |-> Integer(6255),
        uuid |-> Str("GGG15XMEK13KN6ARGV2F5EXMKT"),
        settlement_date |-> Date(2025, 6, 1),
        billing_entity_uuid |-> Str("JW8H2B9BT6B11R2HHXY3HYQCN6"),
        entity_uuid |-> Str("062X8PVY3XWB1"),
        alternate_id |-> Str("209225173886"),
        payable_receivable |-> Str("RECEIVABLE"),
        currency |-> Str("USD"),
        total_amount |-> Decimal(FALSE, 5999, 2),
        fee_amount |-> Decimal(FALSE, 5999, 2),
        tax1_amount |-> Decimal(FALSE, 0, 0),
        tax2_amount |-> Decimal(FALSE, 0, 0),
        tax3_amount |-> Decimal(FALSE, 0, 0),
        tax4_amount |-> Decimal(FALSE, 0, 0),
        lookup_ledger_account_key |-> Str("Incur.App.38NB0ETSWWP6C"),
        gl_code |-> None,
        item_code |-> Str("38NB0ETSWWP6C"),
        last_invoice_num |-> Str("202506/000006200"),
        request_uuid |-> Str("CQ95HJ649AXSDG6RF4Z71Z8ATD"),
        created_timestamp |-> Datetime(2025, 6, 2, 16, 9, 51, 641654),
        modified_timestamp |-> Datetime(2025, 6, 2, 16, 9, 52, 0)]],
     [k |-> "settlement_3", cls |-> "Settlement", kwargs |-> [
        id |-> Integer(6257),
        uuid |-> Str("8FNKVQ3SSHT2N7AVW3KH8DS00R"),
        settlement_date |-> Date(2025, 6, 1),
        billing_entity_uuid |-> Str("JW8H2B9BT6B11R2HHXY3HYQCN6"),
        entity_uuid |-> Str("062X8PVY3XWB1"),
        alternate_id |-> Str("209225173886"),
        payable_receivable |-> Str("RECEIVABLE"),
        currency |-> Str("USD"),
        total_amount |-> Decimal(FALSE, 99, 0),
        fee_amount |-> Decimal(FALSE, 99, 0),
        tax1_amount |-> Decimal(FALSE, 0, 0),
        tax2_amount |-> Decimal(FALSE, 0, 0),
        tax3_amount |-> Decimal(FALSE, 0, 0),
        tax4_amount |-> Decimal(FALSE, 0, 0),
        lookup_ledger_account_key |-> Str("Incur.App.VX7BFWEXXQ1CW"),
        gl_code |-> Str("51501"),
        item_code |-> Str("VX7BFWEXXQ1CW"),
        last_invoice_num |-> Str("202506/000006200"),
        request_uuid |-> Str("CQ95HJ649AXSDG6RF4Z71Z8ATD"),
        created_timestamp |-> Datetime(2025, 6, 2, 16, 9, 51, 683242),
        modified_timestamp |-> Datetime(2025, 6, 2, 16, 9, 52, 0)]],
     [k |-> "settlement_4", cls |-> "Settlement", kwargs |-> [
        id |-> Integer(6258),
        uuid |-> Str("VS6EVR8GK3AWAKV8SAK4HJFC77"),
        settlement_date |-> Date(2025, 6, 1),
        billing_entity_uuid |-> Str("JW8H2B9BT6B11R2HHXY3HYQCN6"),
        entity_uuid |-> Str("062X8PVY3XWB1"),
        alternate_id |-> Str("209225173886"),
        payable_receivable |-> Str("RECEIVABLE"),
        currency |-> Str("USD"),
        total_amount |-> Decimal(FALSE, 8985, 2),
        fee_amount |-> Decimal(FALSE, 8985, 2),
        tax1_amount |-> Decimal(FALSE, 0, 0),
        tax2_amount |-> Decimal(FALSE, 0, 0),
        tax3_amount |-> Decimal(FALSE, 0, 0),
        tax4_amount |-> Decimal(FALSE, 0, 0),
        lookup_ledger_account_key |-> Str("Incur.Plan"),
        gl_code |-> Str("51505"),
        item_code |-> Str("V20071.0000"),
        last_invoice_num |-> Str("202506/000006200"),
        request_uuid |-> Str("CQ95HJ649AXSDG6RF4Z71Z8ATD"),
        created_timestamp |-> Datetime(2025, 6, 2, 16, 9, 51, 700076),
        modified_timestamp |-> Datetime(2025, 6, 2, 16, 9, 52, 0)]] >>

\* The add_node calls of create_graph, in program order: node identifier,
\* key of the object in create_pydantic_objects, table name.
NodeDecls ==
  <<
     [id |-> "billing_entity_merchant", obj |-> "merchant_billing_entity", table |-> "billing_entity"],
     [id |-> "billing_entity_clover", obj |-> "clover_billing_entity", table |-> "billing_entity"],
     [id |-> "billing_entity_us_support", obj |-> "us_support_billing_entity", table |-> "billing_entity"],
     [id |-> "invoice_info_1", obj |-> "invoice_info", table |-> "invoice_info"],
     [id |-> "fee_rate_1", obj |-> "fee_rate_1", table |-> "fee_rate"],
     [id |-> "fee_rate_2", obj |-> "fee_rate_2", table |-> "fee_rate"],
     [id |-> "fee_rate_3", obj |-> "fee_rate_3", table |-> "fee_rate"],
     [id |-> "fee_rate_4", obj |-> "fee_rate_4", table |-> "fee_rate"],
     [id |-> "fee_rate_5", obj |-> "fee_rate_5", table |-> "fee_rate"],
     [id |-> "fee_rate_6", obj |-> "fee_rate_6", table |-> "fee_rate"],
     [id |-> "fee_summary_1", obj |-> "fee_summary_1", table |-> "fee_summary"],
     [id |-> "fee_summary_2", obj |-> "fee_summary_2", table |-> "fee_summary"],
     [id |-> "fee_summary_3", obj |-> "fee_summary_3", table |-> "fee_summary"],
     [id |-> "fee_summary_4", obj |-> "fee_summary_4", table |-> "fee_summary"],
     [id |-> "fee_summary_5", obj |-> "fee_summary_5", table |-> "fee_summary"],
     [id |-> "fee_summary_6", obj |-> "fee_summary_6", table |-> "fee_summary"],
     [id |-> "settlement_1", obj |-> "settlement_1", table |-> "settlement"],
     [id |-> "settlement_2", obj |-> "settlement_2", table |-> "settlement"],
     [id |-> "settlement_3", obj |-> "settlement_3", table |-> "settlement"],
     [id |-> "settlement_4", obj |-> "settlement_4", table |-> "settlement"] >>

\* The first edge naming the invoice by the key of its object, which no
\* add_node call uses as an identifier.
edges_entity_to_invoice_by_key ==
  <<
     <<"billing_entity_merchant", "invoice_info">> >>
\* create_graph, line 474.
edges_entity_to_invoice ==
  <<
     <<"billing_entity_merchant", "invoice_info_1">> >>

\* The invoice associated with five of the fee rates, fee_rate_3 left out.
edges_invoice_to_fee_rates_five ==
  <<
     <<"invoice_info_1", "fee_rate_1">>,
     <<"invoice_info_1", "fee_rate_2">>,
     <<"invoice_info_1", "fee_rate_4">>,
     <<"invoice_info_1", "fee_rate_5">>,
     <<"invoice_info_1", "fee_rate_6">> >>
\* create_graph, lines 477-484.
edges_invoice_to_fee_rates ==
  <<
     <<"invoice_info_1", "fee_rate_1">>,
     <<"invoice_info_1", "fee_rate_2">>,
     <<"invoice_info_1", "fee_rate_3">>,
     <<"invoice_info_1", "fee_rate_4">>,
     <<"invoice_info_1", "fee_rate_5">>,
     <<"invoice_info_1", "fee_rate_6">> >>

\* The same six pairs declared from fee_rate_6 down to fee_rate_1.
edges_fee_rates_to_summaries_descending ==
  <<
     <<"fee_rate_6", "fee_summary_6">>,
     <<"fee_rate_5", "fee_summary_5">>,
     <<"fee_rate_4", "fee_summary_4">>,
     <<"fee_rate_3", "fee_summary_3">>,
     <<"fee_rate_2", "fee_summary_2">>,
     <<"fee_rate_1", "fee_summary_1">> >>
\* create_graph, lines 487-494.
edges_fee_rates_to_summaries ==
  <<
     <<"fee_rate_1", "fee_summary_1">>,
     <<"fee_rate_2", "fee_summary_2">>,
     <<"fee_rate_3", "fee_summary_3">>,
     <<"fee_rate_4", "fee_summary_4">>,
     <<"fee_rate_5", "fee_summary_5">>,
     <<"fee_rate_6", "fee_summary_6">> >>

\* Mutant: fee_summary_5 contributes to settlement_3 instead of settlement_4.
edges_summaries_to_settlements_split ==
  <<
     <<"fee_summary_1", "settlement_1">>,
     <<"fee_summary_2", "settlement_2">>,
     <<"fee_summary_3", "settlement_3">>,
     <<"fee_summary_4", "settlement_4">>,
     <<"fee_summary_5", "settlement_3">>,
     <<"fee_summary_6", "settlement_4">> >>
\* create_graph, lines 497-504.
edges_summaries_to_settlements ==
  <<
     <<"fee_summary_1", "settlement_1">>,
     <<"fee_summary_2", "settlement_2">>,
     <<"fee_summary_3", "settlement_3">>,
     <<"fee_summary_4", "settlement_4">>,
     <<"fee_summary_5", "settlement_4">>,
     <<"fee_summary_6", "settlement_4">> >>

\* Mutant: the last pair of the list is left out.
edges_settlements_to_entities_incomplete ==
  <<
     <<"settlement_1", "billing_entity_clover">>,
     <<"settlement_1", "billing_entity_us_support">>,
     <<"settlement_2", "billing_entity_clover">>,
     <<"settlement_2", "billing_entity_us_support">>,
     <<"settlement_3", "billing_entity_clover">>,
     <<"settlement_3", "billing_entity_us_support">>,
     <<"settlement_4", "billing_entity_clover">> >>
\* Mutant: a settlement pays back into the merchant billing entity.
edges_settlements_to_entities_cyclic ==
  <<
     <<"settlement_1", "billing_entity_merchant">>,
     <<"settlement_1", "billing_entity_us_support">>,
     <<"settlement_2", "billing_entity_clover">>,
     <<"settlement_2", "billing_entity_us_support">>,
     <<"settlement_3", "billing_entity_clover">>,
     <<"settlement_3", "billing_entity_us_support">>,
     <<"settlement_4", "billing_entity_clover">>,
     <<"settlement_4", "billing_entity_us_support">> >>
\* create_graph, lines 507-516.
edges_settlements_to_entities ==
  <<
     <<"settlement_1", "billing_entity_clover">>,
     <<"settlement_1", "billing_entity_us_support">>,
     <<"settlement_2", "billing_entity_clover">>,
     <<"settlement_2", "billing_entity_us_support">>,
     <<"settlement_3", "billing_entity_clover">>,
     <<"settlement_3", "billing_entity_us_support">>,
     <<"settlement_4", "billing_entity_clover">>,
     <<"settlement_4", "billing_entity_us_support">> >>

\* create_pydantic_objects leaving the modified_timestamp of the fee rates to
\* the model's default_factory.
create_pydantic_objects_unstamped(clock) ==
  [i \in 1..Len(SampleArgs) |->
     LET kw == SampleArgs[i].kwargs
         given == IF SampleArgs[i].cls = "FeeRate"
                  THEN [n \in DOMAIN kw \ {"modified_timestamp"} |-> kw[n]]
                  ELSE kw
     IN [k |-> SampleArgs[i].k,
         v |-> Construct(TypeNamed(SampleArgs[i].cls), given, clock)]]
\* create_pydantic_objects giving fee_summary_2 the fee_rate_uuid of
\* fee_summary_1.
create_pydantic_objects_relinked(clock) ==
  [i \in 1..Len(SampleArgs) |->
     LET kw == SampleArgs[i].kwargs
         given == IF SampleArgs[i].k = "fee_summary_2"
                  THEN [kw EXCEPT !.fee_rate_uuid = Str("J65DRB7XHQQ1RTYJSBSTQQBW7K")]
                  ELSE kw
     IN [k |-> SampleArgs[i].k,
         v |-> Construct(TypeNamed(SampleArgs[i].cls), given, clock)]]
\* create_pydantic_objects giving settlement_4 the sum of its fees without
\* the refund of fee_summary_5.
create_pydantic_objects_unrefunded(clock) ==
  [i \in 1..Len(SampleArgs) |->
     LET kw == SampleArgs[i].kwargs
         given == IF SampleArgs[i].k = "settlement_4"
                  THEN [kw EXCEPT !.total_amount = Decimal(FALSE, 10980, 2)]
                  ELSE kw
     IN [k |-> SampleArgs[i].k,
         v |-> Construct(TypeNamed(SampleArgs[i].cls), given, clock)]]
\* The objects create_pydantic_objects returns, keyed as in its return dict.
create_pydantic_objects(clock) ==
  [i \in 1..Len(SampleArgs) |->
     [k |-> SampleArgs[i].k,
      v |-> Construct(TypeNamed(SampleArgs[i].cls), SampleArgs[i].kwargs, clock)]]
\* The add_edge / add_edges_from calls of create_graph, in program order.
EdgeDecls ==
  edges_entity_to_invoice \o edges_invoice_to_fee_rates \o edges_fee_rates_to_summaries
    \o edges_summaries_to_settlements \o edges_settlements_to_entities
\* json.dumps(..., default=str) of one value: what the json module encodes
\* itself is kept (a str-based enum member is written as its string), any
\* other object goes through str().
RECURSIVE JsonDumpsValue(_)
JsonDumpsValue(v) ==
  CASE v.t = "dict" -> Dict([i \in 1..Len(v.items) |->
                               [k |-> v.items[i].k, v |-> JsonDumpsValue(v.items[i].v)]])
    [] v.t \in {"none", "str", "int", "bool"} -> v
    [] v.t = "enum" -> Str(v.value)
    [] OTHER -> Str(PyStr(v))
\* serialize_graph leaving out the nodes that carry no attributes.
serialize_graph_skip_bare(G) ==
  LET kept == SelectSeq(G._node, LAMBDA e : e.v # <<>>)
      node_entry(i) ==
        DictUpdate(<< [k |-> "id", v |-> Str(kept[i].k)] >>, kept[i].v)
      E == edges(G)
  IN [nodes |-> [i \in 1..Len(kept) |->
                   [j \in 1..Len(node_entry(i)) |->
                      [k |-> node_entry(i)[j].k, v |-> JsonDumpsValue(node_entry(i)[j].v)]]],
      edges |-> [i \in 1..Len(E) |->
                   << [k |-> "source", v |-> Str(E[i][1])],
                      [k |-> "target", v |-> Str(E[i][2])] >>]]
\* serialize_graph(G): the document, as the nodes and edges lists json.dumps
\* writes, every leaf in its encoded form.
serialize_graph(G) ==
  LET node_entry(i) ==
        DictUpdate(<< [k |-> "id", v |-> Str(G._node[i].k)] >>, G._node[i].v)
      E == edges(G)
  IN [nodes |-> [i \in 1..Len(G._node) |->
                   [j \in 1..Len(node_entry(i)) |->
                      [k |-> node_entry(i)[j].k, v |-> JsonDumpsValue(node_entry(i)[j].v)]]],
      edges |-> [i \in 1..Len(E) |->
                   << [k |-> "source", v |-> Str(E[i][1])],
                      [k |-> "target", v |-> Str(E[i][2])] >>]]

\* serialize_graph writing the id into the attribute dict of each node
\* instead of into a new dict.
serialize_graph_argument_tagged(G) ==
  [_node |-> [i \in 1..Len(G._node) |->
                [k |-> G._node[i].k,
                 v |-> DictUpdate(G._node[i].v, << [k |-> "id", v |-> Str(G._node[i].k)] >>)]],
   _adj |-> G._adj]
\* The argument of serialize_graph when the call returns. Lines 529-532 make
\* node_entry a new dict for each node and update() copies the node's
\* attributes into it; lines 535-536 and json.dumps only read. No statement
\* stores into G or into one of its attribute dicts.
serialize_graph_argument(G) ==
  [_node |-> [i \in 1..Len(G._node) |-> [k |-> G._node[i].k, v |-> G._node[i].v]],
   _adj |-> G._adj]

\* ------------------------------------------------------------- state
VARIABLES
  G,        \* the DiGraph under construction
  pc,       \* position of the running program
  ip,       \* index of the next add_node / add_edge call of create_graph,
            \* or of the next print of a model module's __main__ block
  now,      \* the wall clock
  data,     \* the dict returned by create_pydantic_objects
  docs,     \* the documents serialize_graph has returned so far
  runAt,    \* the clock reading at each create_graph call
  oplog,    \* the add_node / add_edge calls made on G, in call order
  ent,      \* outcome of the last entity constructor call
  minimal,  \* what to_minimal_dict returned for ent
  args,     \* the class and keyword arguments of that constructor call
  node,     \* what create_node_data returned for ent
  parsed,   \* the instance parsed back from ent's JSON
  exc,      \* the exception that left create_graph, None if none has
  held,     \* the graph of an earlier create_graph call, as its caller holds it
  stdout,   \* what the process has written to standard output
  status    \* the exit status of the process, -1 while it runs

vars ==
  <<G, pc, ip, now, data, docs, runAt, oplog, ent, minimal, args, node, parsed, exc, held, stdout, status>>

\* No to_minimal_dict call has returned yet.
NotCalled ==
  [t |-> "notcalled"]

\* ----------------------------------------------- main.py, create_graph
\* Exceptions the runtime can raise inside create_graph or serialize_graph
\* whatever the data: class, str(e) and the number of lines of str(e).
Faults ==
  { [cls |-> "MemoryError", msg |-> "", lines |-> 1] }
\* A pydantic ValidationError: str(e) has a header line and two lines for
\* each offending field.
ValidationError ==
  [cls |-> "ValidationError", msg |-> "1 validation error", lines |-> 3]
\* The same faults inside a constructor call of create_pydantic_objects: the
\* index of the call and what it raises.
ConstructorFaults ==
  {[at |-> i, e |-> f] : i \in 1..Len(SampleArgs), f \in Faults}

Init ==
  /\ G = DiGraph
  /\ pc = "idle"
  /\ ip = 0
  /\ now = 0
  /\ data = <<>>
  /\ docs = <<>>
  /\ runAt = <<>>
  /\ oplog = <<>>
  /\ ent = None
  /\ minimal = NotCalled
  /\ args = None
  /\ node = NotCalled
  /\ parsed = NotCalled
  /\ exc = None
  /\ held = None
  /\ stdout = <<>>
  /\ status = -1

\* Time passes between any two steps.
Tick ==
  /\ now < MaxClock
  /\ now' = now + 1
  /\ UNCHANGED <<G, pc, ip, data, docs, runAt, oplog, ent, minimal, args, node, parsed, exc, held, stdout, status>>

\* create_graph filling one graph object that every call shares.
CallCreateGraph_shared ==
  /\ pc = "idle"
  /\ Len(docs) < MaxRuns
  /\ G' = IF held = None THEN DiGraph ELSE held
  /\ data' = create_pydantic_objects(now)
  /\ pc' = "add_nodes"
  /\ ip' = 1
  /\ exc' = None
  /\ runAt' = Append(runAt, now)
  /\ oplog' = <<>>
  /\ UNCHANGED <<now, docs, ent, minimal, args, node, parsed, held, stdout, status>>
\* create_graph catching what a constructor raises and returning the graph it
\* has at that point.
CallCreateGraph_catching ==
  /\ pc = "idle"
  /\ Len(docs) < MaxRuns
  /\ \E fault \in {None} \cup ConstructorFaults :
       LET objs == create_pydantic_objects(now)
       IN /\ G' = DiGraph
          /\ data' = objs
          /\ exc' = None
          /\ IF fault = None /\ \A i \in 1..Len(objs) : objs[i].v.ok
             THEN pc' = "add_nodes" /\ ip' = 1
             ELSE pc' = "built" /\ ip' = 0
  /\ runAt' = Append(runAt, now)
  /\ oplog' = <<>>
  /\ UNCHANGED <<now, docs, ent, minimal, args, node, parsed, held, stdout, status>>
\* create_graph, lines 443-446: a fresh DiGraph and the sample objects.
\* Neither create_graph nor create_pydantic_objects has a try statement: what
\* a constructor raises, a ValidationError or a fault of the runtime, leaves
\* both at once, before the dict of objects or the graph is bound by anyone.
CallCreateGraph ==
  /\ pc = "idle"
  /\ Len(docs) < MaxRuns
  /\ \E fault \in {None} \cup ConstructorFaults :
       LET objs == create_pydantic_objects(now)
           invalid == {i \in 1..Len(objs) : ~objs[i].v.ok}
           first == CHOOSE i \in invalid : \A j \in invalid : i <= j
       IN IF fault = None /\ invalid = {}
          THEN /\ G' = DiGraph
               /\ data' = objs
               /\ pc' = "add_nodes"
               /\ ip' = 1
               /\ exc' = None
          ELSE /\ pc' = "raised"
               /\ exc' = IF fault # None /\ (invalid = {} \/ fault.at <= first)
                         THEN fault
                         ELSE [at |-> first, e |-> ValidationError]
               /\ UNCHANGED <<G, data, ip>>
  /\ runAt' = Append(runAt, now)
  /\ oplog' = <<>>
  /\ UNCHANGED <<now, docs, ent, minimal, args, node, parsed, held, stdout, status>>

\* create_graph, lines 449-468: the next G.add_node call.
AddNodeStep ==
  /\ pc = "add_nodes"
  /\ LET d == NodeDecls[ip]
     IN /\ G' = add_node(G, d.id, create_node_data(Get(data, d.obj), d.table))
        /\ oplog' = Append(oplog, [op |-> "add_node", n |-> d.id])
  /\ IF ip < Len(NodeDecls)
     THEN ip' = ip + 1 /\ pc' = pc
     ELSE ip' = 1 /\ pc' = "add_edges"
  /\ UNCHANGED <<now, data, docs, runAt, ent, minimal, args, node, parsed, exc, held, stdout, status>>

\* create_graph, lines 474-516: the next edge insertion.
AddEdgeStep ==
  /\ pc = "add_edges"
  /\ LET e == EdgeDecls[ip]
     IN /\ G' = add_edge(G, e[1], e[2])
        /\ oplog' = Append(oplog, [op |-> "add_edge", u |-> e[1], v |-> e[2]])
  /\ IF ip < Len(EdgeDecls)
     THEN ip' = ip + 1 /\ pc' = pc
     ELSE ip' = 0 /\ pc' = "built"
  /\ UNCHANGED <<now, data, docs, runAt, ent, minimal, args, node, parsed, exc, held, stdout, status>>

\* main, line 545: serialize_graph on the graph create_graph returned. The
\* caller keeps the graph.
Serialize ==
  /\ pc = "built"
  /\ docs' = Append(docs, serialize_graph(G))
  /\ G' = serialize_graph_argument(G)
  /\ held' = G'
  /\ pc' = "idle"
  /\ UNCHANGED <<ip, now, data, runAt, oplog, ent, minimal, args, node, parsed, exc, stdout, status>>

\* What a caller can do to the graph it was returned: add an edge (here one
\* that closes a cycle, to a node of its own) or write into the "minimal"
\* dict of a node.
Modifications(g) ==
  { add_edge(g, "billing_entity_clover", "caller_node"),
    [g EXCEPT !._node = DictSet(g._node, "fee_rate_1",
                          DictSet(Get(g._node, "fee_rate_1"), "minimal", Dict(<<>>)))] }
\* Between two create_graph calls the caller modifies the graph it holds.
CallerModifies ==
  /\ pc = "idle"
  /\ held # None
  /\ \E g \in Modifications(held) : held' = g
  /\ UNCHANGED <<G, pc, ip, now, data, docs, runAt, oplog, ent, minimal, args, node, parsed, exc, stdout, status>>

Next ==
  \/ Tick
  \/ CallCreateGraph
  \/ AddNodeStep
  \/ AddEdgeStep
  \/ Serialize
  \/ CallerModifies

Spec ==
  Init /\ [][Next]_vars

\* ------------------------------------------------- main.py, main as a script

\* main, lines 546-548 writing the document built so far before the message.
MainExcept_partial ==
  /\ pc \in {"add_nodes", "add_edges", "built", "raised"}
  /\ \E e \in (IF pc = "raised" THEN {exc.e} ELSE Faults) :
       stdout' = stdout \o << [kind |-> "document", doc |-> serialize_graph(G)],
                              [kind |-> "error", text |-> "Error: " \o e.msg, lines |-> e.lines] >>
  /\ pc' = "return 1"
  /\ UNCHANGED <<G, ip, now, data, docs, runAt, oplog, ent, minimal, args, node, parsed, exc, held, status>>
\* main, lines 546-548: an exception leaves create_graph or serialize_graph,
\* the handler prints one message and main returns 1.
MainExcept ==
  /\ pc \in {"add_nodes", "add_edges", "built", "raised"}
  /\ \E e \in (IF pc = "raised" THEN {exc.e} ELSE Faults) :
       stdout' = Append(stdout, [kind |-> "error", text |-> "Error: " \o e.msg, lines |-> e.lines])
  /\ pc' = "return 1"
  /\ UNCHANGED <<G, ip, now, data, docs, runAt, oplog, ent, minimal, args, node, parsed, exc, held, status>>

\* main, lines 544-545 and 549: serialize_graph returns, the document is
\* printed and main returns 0.
MainPrint ==
  /\ pc = "built"
  /\ docs' = Append(docs, serialize_graph(G))
  /\ stdout' = Append(stdout, [kind |-> "document", doc |-> serialize_graph(G)])
  /\ G' = serialize_graph_argument(G)
  /\ pc' = "return 0"
  /\ UNCHANGED <<ip, now, data, runAt, oplog, ent, minimal, args, node, parsed, exc, held, status>>

\* Lines 553-554: the guard calls main() and drops what it returns; the
\* interpreter then ends with status 0.
ScriptExit ==
  /\ pc \in {"return 0", "return 1"}
  /\ status' = 0
  /\ pc' = "exited"
  /\ UNCHANGED <<G, ip, now, data, docs, runAt, oplog, ent, minimal, args, node, parsed, exc, held, stdout>>

NextMain ==
  \/ CallCreateGraph
  \/ AddNodeStep
  \/ AddEdgeStep
  \/ MainExcept
  \/ MainPrint
  \/ ScriptExit

SpecMain ==
  Init /\ [][NextMain]_vars

\* ------------------------- a DiGraph under free add_node / add_edge calls
\* Node identifiers offered to add_node and add_edge.
Ids ==
  {<<"n1", "n2", "n3", "n4", "n5", "n6">>[i] : i \in 1..NumIds}
\* Attributes passed to add_node, shaped as create_node_data's result.
FreeNodeData ==
  << [k |-> "table", v |-> Str("fee_rate")],
     [k |-> "minimal", v |-> Dict(<<>>)],
     [k |-> "others", v |-> Dict(<<>>)] >>

InitGraph ==
  /\ G = DiGraph
  /\ pc = "free"
  /\ ip = 0
  /\ now = 0
  /\ data = <<>>
  /\ docs = <<>>
  /\ runAt = <<>>
  /\ oplog = <<>>
  /\ ent = None
  /\ minimal = NotCalled
  /\ args = None
  /\ node = NotCalled
  /\ parsed = NotCalled
  /\ exc = None
  /\ held = None
  /\ stdout = <<>>
  /\ status = -1

AddNode ==
  /\ pc = "free"
  /\ Len(oplog) < MaxOps
  /\ \E n \in Ids :
       /\ G' = add_node(G, n, FreeNodeData)
       /\ oplog' = Append(oplog, [op |-> "add_node", n |-> n])
  /\ UNCHANGED <<pc, ip, now, data, docs, runAt, ent, minimal, args, node, parsed, exc, held, stdout, status>>

AddEdge ==
  /\ pc = "free"
  /\ Len(oplog) < MaxOps
  /\ \E u \in Ids, v \in Ids :
       /\ G' = add_edge(G, u, v)
       /\ oplog' = Append(oplog, [op |-> "add_edge", u |-> u, v |-> v])
  /\ UNCHANGED <<pc, ip, now, data, docs, runAt, ent, minimal, args, node, parsed, exc, held, stdout, status>>

SerializeFree ==
  /\ pc = "free"
  /\ docs' = <<serialize_graph(G)>>
  /\ G' = serialize_graph_argument(G)
  /\ pc' = "serialized"
  /\ UNCHANGED <<ip, now, data, runAt, oplog, ent, minimal, args, node, parsed, exc, held, stdout, status>>

NextGraph ==
  \/ AddNode
  \/ AddEdge
  \/ SerializeFree

SpecGraph ==
  InitGraph /\ [][NextGraph]_vars

\* ------------------------------------------ one entity and its projection
\* Values offered to a constructor, by field kind.
SampleValues(f) ==
  CASE f.k = "str" -> <<Str("A"), Str("AB"), Str("ABC")>>
    [] f.k = "int" -> <<Integer(1), Integer(2), Integer(3)>>
    [] f.k = "bool" -> <<Bool(TRUE), Bool(FALSE)>>
    [] f.k = "bytes" -> <<Bytes("abc"), Bytes("a\\xffb"), Bytes("")>>
    [] f.k = "decimal" -> <<Decimal(FALSE, 999, 2), Decimal(TRUE, 1995, 2), Decimal(FALSE, 99, 0)>>
    [] f.k = "date" -> <<Date(2025, 6, 1), Date(2017, 2, 15)>>
    [] f.k = "datetime" -> <<Datetime(2025, 6, 2, 16, 9, 52, 0),
                             Datetime(2025, 2, 26, 17, 6, 39, 670150)>>
    [] f.k = "literal" -> LET a == CHOOSE x \in f.c.vals : TRUE
                              b == CHOOSE x \in f.c.vals : x # a \/ f.c.vals = {a}
                          IN <<Str(a), Str(b)>>
    [] f.k = "enum" -> LET a == CHOOSE x \in f.c.vals : TRUE
                           b == CHOOSE x \in f.c.vals : x # a \/ f.c.vals = {a}
                       IN <<EnumMember(f.c.cls, a), EnumMember(f.c.cls, b)>>
\* Keyword arguments for T with the fields in `omitted` left out.
SampleKwargs(T, omitted, variant) ==
  [n \in FieldNames(T) \ omitted |->
     LET values == SampleValues(T.fields[CHOOSE i \in 1..Len(T.fields) : T.fields[i].n = n])
     IN values[(variant % Len(values)) + 1]]
\* A value that breaks the declaration of f: one character more than
\* max_length, the excluded bound of gt / one below ge, one fractional digit
\* more than decimal_places, a string outside the closed set, or a value of
\* another type.
InvalidValue(f) ==
  LET RECURSIVE Xs(_)
      Xs(n) == IF n = 0 THEN ""
               ELSE LET half == Xs(n \div 2)
                    IN half \o half \o (IF n % 2 = 1 THEN "x" ELSE "")
  IN CASE f.k = "str" /\ "max_length" \in DOMAIN f.c -> Str(Xs(f.c.max_length + 1))
       [] f.k = "int" /\ "gt" \in DOMAIN f.c -> Integer(f.c.gt)
       [] f.k = "int" /\ "ge" \in DOMAIN f.c -> Integer(f.c.ge - 1)
       [] f.k = "decimal" /\ "decimal_places" \in DOMAIN f.c -> Decimal(FALSE, 1, f.c.decimal_places + 1)
       [] f.k \in {"literal", "enum"} -> Str("NOT_A_MEMBER")
       [] f.k \in {"str", "bytes"} -> Integer(7)
       [] OTHER -> Str("x")
\* No field: the constructor call is given sample values only.
NoField ==
  ""
RECURSIVE SubsetsUpTo(_, _)
SubsetsUpTo(S, k) ==
  IF k = 0 THEN {{}}
  ELSE LET P == SubsetsUpTo(S, k - 1) IN P \cup {p \cup {x} : p \in P, x \in S}

InitEntity ==
  /\ G = DiGraph
  /\ pc = "entity"
  /\ ip = 0
  /\ now \in {0, MaxClock}
  /\ data = <<>>
  /\ docs = <<>>
  /\ runAt = <<>>
  /\ oplog = <<>>
  /\ ent = None
  /\ minimal = NotCalled
  /\ args = None
  /\ node = NotCalled
  /\ parsed = NotCalled
  /\ exc = None
  /\ held = None
  /\ stdout = <<>>
  /\ status = -1

\* T(**kwargs) for any entity model T.
ConstructEntity ==
  /\ ent = None
  /\ \E T \in EntityTypes :
       \E omitted \in SubsetsUpTo(FieldNames(T), MaxOmitted), variant \in 0..MaxVariant :
         \E corrupt \in (IF omitted = {} THEN FieldNames(T) \cup {NoField} ELSE {NoField}) :
           LET sample == SampleKwargs(T, omitted, variant)
               kwargs == [n \in DOMAIN sample |->
                            IF n = corrupt
                            THEN InvalidValue(T.fields[CHOOSE i \in 1..Len(T.fields) : T.fields[i].n = n])
                            ELSE sample[n]]
           IN /\ ent' = Construct(T, kwargs, now)
              /\ args' = [t |-> "call", cls |-> T.name, kwargs |-> kwargs]
  /\ UNCHANGED <<G, pc, ip, now, data, docs, runAt, oplog, minimal, node, parsed, exc, held, stdout, status>>

\* to_minimal_dict moving the minimal values out of the instance.
ToMinimalDict_moving ==
  /\ ent # None
  /\ ent.ok
  /\ parsed = NotCalled
  /\ minimal' = Dict(to_minimal_dict(ent))
  /\ ent' = [ent EXCEPT !.values =
               [i \in 1..Len(ent.values) |->
                  IF ent.values[i].k \in TypeNamed(ent.cls).MINIMAL_FIELDS
                  THEN [k |-> ent.values[i].k, v |-> None]
                  ELSE ent.values[i]]]
  /\ UNCHANGED <<G, pc, ip, now, data, docs, runAt, oplog, args, node, parsed, exc, held, stdout, status>>
\* instance.to_minimal_dict(), any number of times: the method reads
\* self.MINIMAL_FIELDS and the attributes and assigns to nothing.
ToMinimalDict ==
  /\ ent # None
  /\ ent.ok
  /\ parsed = NotCalled
  /\ minimal' = Dict(to_minimal_dict(ent))
  /\ UNCHANGED <<G, pc, ip, now, data, docs, runAt, oplog, ent, args, node, parsed, exc, held, stdout, status>>

\* create_node_data(instance, table) for the instance in ent.
CreateNodeData ==
  /\ ent # None
  /\ ent.ok
  /\ node = NotCalled
  /\ parsed = NotCalled
  /\ node' = Dict(create_node_data(ent, TypeNamed(ent.cls).table))
  /\ UNCHANGED <<G, pc, ip, now, data, docs, runAt, oplog, ent, minimal, args, parsed, exc, held, stdout, status>>

\* T.model_validate_json(instance.model_dump_json()) for the instance in ent.
RoundTrip ==
  /\ ent # None
  /\ ent.ok
  /\ parsed = NotCalled
  /\ minimal = NotCalled
  /\ node = NotCalled
  /\ parsed' = model_validate_json(TypeNamed(ent.cls),
                                   model_dump_json(ent, FieldNames(TypeNamed(ent.cls))), now)
  /\ UNCHANGED <<G, pc, ip, now, data, docs, runAt, oplog, ent, minimal, args, node, exc, held, stdout, status>>

NextEntity ==
  \/ ConstructEntity
  \/ ToMinimalDict
  \/ CreateNodeData
  \/ RoundTrip

SpecEntity ==
  InitEntity /\ [][NextEntity]_vars

\* ------------------------------------------- a model module run standalone
\* The tables test_ebb_models_exist_and_run is parametrized with (the .sql
\* names, which the test maps to <table>.py).
TestTables ==
  {"plan_action", "adjust_action", "adjust_action_fee_code", "adjust_action_type",
   "adjust_reason", "app_meter_action", "app_meter_action_error",
   "app_meter_action_fee_code", "app_meter_action_type", "app_sub_action",
   "app_sub_action_error", "app_sub_action_fee_code", "app_sub_action_type",
   "auto_adjust_advice", "auto_adjust_qualifier", "auto_adjust_rule"}
\* Model modules the test names whose files are not among the 88 modules
\* translated above; there is one schema module per database table.
MissingModules ==
  {"adjust_action_fee_code", "app_meter_action_error", "app_sub_action",
   "app_sub_action_fee_code", "app_sub_action_type"}
\* The files <table>.py of demo/models/ebb.
ModuleFiles ==
  {T.table : T \in EntityTypes} \cup MissingModules
\* The test's marker parser, lines 48-76: the sections between marker lines
\* that json.loads accepts. A "json" entry stands for the lines of one JSON
\* document (none of which starts with "----"); the text between two markers
\* is valid JSON when it is exactly one such document.
RECURSIVE json_sections(_, _, _, _)
json_sections(output_lines, in_json_section, current_json, sections) ==
  LET StartsWith(e, prefix) ==
        e.kind = "line" /\ Len(e.text) >= Len(prefix) /\ SubSeq(e.text, 1, Len(prefix)) = prefix
      saved == IF Len(current_json) = 1 /\ current_json[1].kind = "json"
               THEN Append(sections, current_json[1].value)
               ELSE sections
  IN IF output_lines = <<>> THEN sections
     ELSE LET line == Head(output_lines)
              rest == Tail(output_lines)
          IN IF StartsWith(line, "----begin")
             THEN json_sections(rest, TRUE, <<>>, IF in_json_section THEN saved ELSE sections)
             ELSE IF StartsWith(line, "----end")
             THEN json_sections(rest, FALSE, <<>>, saved)
             ELSE IF in_json_section /\ ~StartsWith(line, "----")
             THEN json_sections(rest, in_json_section, Append(current_json, line), sections)
             ELSE json_sections(rest, in_json_section, current_json, sections)

\* python <table>.py for any model module.
InitModule ==
  /\ G = DiGraph
  /\ pc = "module"
  /\ ip = 0
  /\ now \in {0, MaxClock}
  /\ data = <<>>
  /\ docs = <<>>
  /\ runAt = <<>>
  /\ oplog = <<>>
  /\ ent = None
  /\ minimal = NotCalled
  /\ args \in {[t |-> "module", cls |-> T.name] : T \in EntityTypes}
  /\ node = NotCalled
  /\ parsed = NotCalled
  /\ exc = None
  /\ held = None
  /\ stdout = <<>>
  /\ status = -1

\* The first two statements of the __main__ block: the example of
\* json_schema_extra is read back from model_json_schema() and passed to the
\* constructor, which validates it (strings are parsed into the declared
\* types). A ValidationError ends the process with a traceback and status 1.
ModuleConstruct ==
  /\ pc = "module"
  /\ ent = None
  /\ LET T == TypeNamed(args.cls)
         example_dict == Filter(T.example, FieldNames(T))
         kwargs == [n \in Keys(example_dict) |->
                      ParseJson(T.fields[CHOOSE i \in 1..Len(T.fields) : T.fields[i].n = n],
                                Get(example_dict, n))]
     IN /\ ent' = Construct(T, kwargs, now)
        /\ IF ent'.ok
           THEN ip' = 1 /\ UNCHANGED <<pc, status>>
           ELSE ip' = 0 /\ pc' = "exited" /\ status' = 1
  /\ UNCHANGED <<G, now, data, docs, runAt, oplog, minimal, args, node, parsed, exc, held, stdout>>

\* The five print statements of the __main__ block, in program order.
\* json.dumps raises TypeError on a value that is not a JSON scalar.
ModulePrint ==
  /\ pc = "module"
  /\ ip \in 1..5
  /\ LET T == TypeNamed(args.cls)
         minimal_dict == to_minimal_dict(ent)
         dumps_ok == \A i \in 1..Len(minimal_dict) : minimal_dict[i].v.t \in {"none", "str", "int", "bool"}
         printed == CASE ip = 1 -> [kind |-> "line", text |-> T.main[1]]
                      [] ip = 2 -> [kind |-> "json", value |-> model_dump_json(ent, FieldNames(T))]
                      [] ip = 3 -> [kind |-> "line", text |-> T.main[2]]
                      [] ip = 4 -> [kind |-> "json", value |-> minimal_dict]
                      [] ip = 5 -> [kind |-> "line", text |-> T.main[3]]
     IN IF ip = 4 /\ ~dumps_ok
        THEN /\ pc' = "exited"
             /\ status' = 1
             /\ UNCHANGED <<ip, stdout>>
        ELSE /\ stdout' = Append(stdout, printed)
             /\ ip' = ip + 1
             /\ UNCHANGED <<pc, status>>
  /\ UNCHANGED <<G, now, data, docs, runAt, oplog, ent, minimal, args, node, parsed, exc, held>>

\* The end of the script: the interpreter exits with status 0.
ModuleExit ==
  /\ pc = "module"
  /\ ip = 6
  /\ pc' = "exited"
  /\ status' = 0
  /\ UNCHANGED <<G, ip, now, data, docs, runAt, oplog, ent, minimal, args, node, parsed, exc, held, stdout>>

NextModule ==
  \/ ModuleConstruct
  \/ ModulePrint
  \/ ModuleExit

SpecModule ==
  InitModule /\ [][NextModule]_vars

\* ------------------------------------- attribute assignment on an instance
\* A valid instance of any entity model, every field given.
InitAssign ==
  /\ G = DiGraph
  /\ pc = "assign"
  /\ ip = 0
  /\ now = 0
  /\ data = <<>>
  /\ docs = <<>>
  /\ runAt = <<>>
  /\ oplog = <<>>
  /\ \E T \in EntityTypes :
       /\ args = [t |-> "call", cls |-> T.name, kwargs |-> SampleKwargs(T, {}, 0)]
       /\ ent = Construct(T, SampleKwargs(T, {}, 0), 0)
       /\ ent.ok
  /\ minimal = NotCalled
  /\ node = NotCalled
  /\ parsed = NotCalled
  /\ exc = None
  /\ held = None
  /\ stdout = <<>>
  /\ status = -1

\* instance.<n> = v. The models set neither validate_assignment nor frozen
\* in their Config, so BaseModel.__setattr__ stores the value as it is. The
\* values offered are of the field's type: the samples, and for a field with
\* a length, bound or precision constraint one that breaks it.
SetAttr ==
  /\ minimal = NotCalled
  /\ \E i \in 1..Len(ent.values) :
       LET T == TypeNamed(ent.cls)
           f == T.fields[i]
           offered == {SampleValues(f)[1], SampleValues(f)[2]} \cup
                      (IF f.k \in {"str", "int", "decimal"} /\ InvalidValue(f).t = f.k
                       THEN {InvalidValue(f)} ELSE {})
       IN \E v \in offered :
            /\ ent' = [ent EXCEPT !.values = DictSet(ent.values, f.n, v)]
            /\ Cardinality({n \in FieldNames(T) : Get(ent'.values, n) # args.kwargs[n]}) <= MaxAssign
  /\ UNCHANGED <<G, pc, ip, now, data, docs, runAt, oplog, minimal, args, node, parsed, exc, held, stdout, status>>

NextAssign ==
  \/ SetAttr
  \/ ToMinimalDict

SpecAssign ==
  InitAssign /\ [][NextAssign]_vars

\* ------------------------------------------------- the sample graph
\* The edges of G as a set of <<source, target>> pairs.
EdgeSet ==
  {edges(G)[i] : i \in 1..Len(edges(G))}
NodeSet ==
  Keys(G._node)
\* The table tag a node carries.
TableOf(n) ==
  Get(Get(G._node, n), "table").s
NodesOf(table) ==
  {n \in NodeSet : TableOf(n) = table}
EdgesBetween(srcTable, dstTable) ==
  {e \in EdgeSet : TableOf(e[1]) = srcTable /\ TableOf(e[2]) = dstTable}
OutEdges(n) ==
  {e \in EdgeSet : e[1] = n}
InEdges(n) ==
  {e \in EdgeSet : e[2] = n}
\* create_graph has returned its graph.
Returned ==
  pc = "built"

\* C1: the graph create_graph returns has exactly 20 nodes and 27 edges:
\* 1 edge merchant billing entity -> invoice, 6 edges invoice -> fee rate,
\* 6 edges fee rate -> fee summary, 6 edges fee summary -> settlement and
\* 8 edges settlement -> downstream billing entity.
C1_SampleGraphShape ==
  Returned =>
    /\ Len(G._node) = 20
    /\ Len(edges(G)) = 27
    /\ EdgesBetween("billing_entity", "invoice_info") = {<<"billing_entity_merchant", "invoice_info_1">>}
    /\ Cardinality(EdgesBetween("invoice_info", "fee_rate")) = 6
    /\ Cardinality(EdgesBetween("fee_rate", "fee_summary")) = 6
    /\ Cardinality(EdgesBetween("fee_summary", "settlement")) = 6
    /\ Cardinality({e \in EdgesBetween("settlement", "billing_entity") :
                      e[2] # "billing_entity_merchant"}) = 8
    /\ Cardinality(EdgeSet) = 27
C1_Witness ==
  Returned /\ Len(oplog) = Len(NodeDecls) + Len(EdgeDecls) /\ Len(edges(G)) > 0

\* C2: in the sample graph every fee rate has exactly one outgoing edge, to a
\* fee summary no other rate shares; every fee summary has exactly one
\* outgoing edge, to a settlement; three summaries converge on one settlement
\* and the other three each have a settlement of their own; every settlement
\* has edges to exactly 2 downstream billing entities.
C2_LineageStructure ==
  Returned =>
    /\ \A r \in NodesOf("fee_rate") :
         /\ Cardinality(OutEdges(r)) = 1
         /\ \A e \in OutEdges(r) : TableOf(e[2]) = "fee_summary" /\ InEdges(e[2]) = {e}
    /\ \A f \in NodesOf("fee_summary") :
         /\ Cardinality(OutEdges(f)) = 1
         /\ \A e \in OutEdges(f) : TableOf(e[2]) = "settlement"
    /\ \E s \in NodesOf("settlement") :
         /\ Cardinality(InEdges(s)) = 3
         /\ \A e \in InEdges(s) : TableOf(e[1]) = "fee_summary"
         /\ \A o \in NodesOf("settlement") \ {s} :
              /\ Cardinality(InEdges(o)) = 1
              /\ \A e \in InEdges(o) : TableOf(e[1]) = "fee_summary"
    /\ Cardinality(NodesOf("settlement") \ {s \in NodesOf("settlement") : Cardinality(InEdges(s)) = 3}) = 3
    /\ \A s \in NodesOf("settlement") :
         /\ Cardinality(OutEdges(s)) = 2
         /\ \A e \in OutEdges(s) : TableOf(e[2]) = "billing_entity" /\ e[2] # "billing_entity_merchant"
C2_Witness ==
  /\ Returned
  /\ Cardinality(NodesOf("fee_rate")) = 6
  /\ \E s \in NodesOf("settlement") : Cardinality(InEdges(s)) = 3

\* Nodes reachable from `frontier` by one or more edges.
RECURSIVE Descendants(_, _)
Descendants(frontier, seen) ==
  LET next == {e[2] : e \in {x \in EdgeSet : x[1] \in frontier}} \ seen
  IN IF next = {} THEN seen ELSE Descendants(next, seen \cup next)
Reachable(n) ==
  Descendants({n}, {})

\* C3: the sample graph is acyclic: no node is reachable from itself by
\* following one or more edges.
C3_Acyclic ==
  Returned => \A n \in NodeSet : n \notin Reachable(n)
C3_Witness ==
  Returned /\ "billing_entity_clover" \in Reachable("billing_entity_merchant")

\* ------------------------------------- serialize_graph on arbitrary graphs
\* The call history of the graph, read independently of G.
RECURSIVE Flatten(_)
Flatten(ss) ==
  IF ss = <<>> THEN <<>> ELSE Head(ss) \o Flatten(Tail(ss))
\* s without the later repetitions of an element.
RECURSIVE Distinct(_)
Distinct(s) ==
  IF s = <<>> THEN <<>>
  ELSE LET r == Distinct(SubSeq(s, 1, Len(s) - 1))
       IN IF \E i \in 1..Len(r) : r[i] = s[Len(s)] THEN r ELSE Append(r, s[Len(s)])
Range(s) ==
  {s[i] : i \in 1..Len(s)}
\* Identifiers passed to add_node, in call order.
AddedNodes ==
  LET calls == SelectSeq(oplog, LAMBDA o : o.op = "add_node")
  IN [i \in 1..Len(calls) |-> calls[i].n]
\* Pairs passed to add_edge, in call order.
AddedEdges ==
  LET calls == SelectSeq(oplog, LAMBDA o : o.op = "add_edge")
  IN [i \in 1..Len(calls) |-> <<calls[i].u, calls[i].v>>]
\* Identifiers in the order they first entered the graph, through add_node
\* or as an endpoint of add_edge (source before target).
EnteredNodes ==
  Distinct(Flatten([i \in 1..Len(oplog) |->
                      IF oplog[i].op = "add_node" THEN <<oplog[i].n>>
                      ELSE <<oplog[i].u, oplog[i].v>>]))
\* Every add_node call names a new identifier and every add_edge call names
\* endpoints that add_node has added before it.
Disciplined ==
  /\ \A i, j \in 1..Len(oplog) :
       (i < j /\ oplog[i].op = "add_node" /\ oplog[j].op = "add_node") => oplog[i].n # oplog[j].n
  /\ \A j \in 1..Len(oplog) :
       oplog[j].op = "add_edge" =>
         \A x \in {oplog[j].u, oplog[j].v} :
           \E i \in 1..(j - 1) : oplog[i].op = "add_node" /\ oplog[i].n = x
Serialized ==
  pc = "serialized"
\* The identifiers of the document's nodes list and the pairs of its edges
\* list, in document order.
DocNodeIds ==
  [i \in 1..Len(docs[1].nodes) |-> docs[1].nodes[i][1].v.s]
DocEdges ==
  [i \in 1..Len(docs[1].edges) |-> <<docs[1].edges[i][1].v.s, docs[1].edges[i][2].v.s>>]

\* C4 as stated: for any sequence of add_node and add_edge operations the
\* document lists the edges in the order in which they were added to the
\* graph, not grouped or sorted in any other way.
C4_EdgeInsertionOrder ==
  Serialized => DocEdges = Distinct(AddedEdges)
\* C4 amended: the document lists each distinct edge once, grouped by source
\* node; the sources follow the order in which the nodes first entered the
\* graph and the edges of one source the order in which they were first added.
C4_EdgesGroupedBySource ==
  Serialized =>
    DocEdges = Flatten([i \in 1..Len(EnteredNodes) |->
                          SelectSeq(Distinct(AddedEdges), LAMBDA e : e[1] = EnteredNodes[i])])
C4_Witness ==
  Serialized /\ Len(DocEdges) = 3 /\ DocEdges # Distinct(AddedEdges)

\* C5: when every add_node call names a new identifier (and edges only join
\* nodes added before), the document lists the nodes in the order of the
\* add_node calls.
C5_NodeInsertionOrder ==
  (Serialized /\ Disciplined) => DocNodeIds = AddedNodes
C5_Witness ==
  Serialized /\ Disciplined /\ Len(AddedNodes) = 2 /\ Len(DocEdges) = 1
    /\ DocNodeIds[1] = "n2"

\* C6 as stated: the number of node entries equals the number of add_node
\* calls and the number of edge entries equals the number of add_edge calls.
C6_CountsEqualCalls ==
  Serialized =>
    /\ Len(docs[1].nodes) = Len(AddedNodes)
    /\ Len(docs[1].edges) = Len(AddedEdges)
\* C6 amended: the document has exactly one node entry for each distinct
\* identifier that entered the graph (through add_node or as an endpoint of
\* add_edge) and exactly one edge entry for each distinct pair passed to
\* add_edge; the counts equal the numbers of calls when every add_node names a
\* new identifier, every edge joins nodes added before and no pair repeats.
C6_NothingDropped ==
  Serialized =>
    /\ Range(DocNodeIds) = Range(EnteredNodes)
    /\ Len(DocNodeIds) = Cardinality(Range(EnteredNodes))
    /\ Range(DocEdges) = Range(AddedEdges)
    /\ Len(DocEdges) = Cardinality(Range(AddedEdges))
    /\ (Disciplined /\ Len(AddedEdges) = Cardinality(Range(AddedEdges))) =>
         /\ Len(docs[1].nodes) = Len(AddedNodes)
         /\ Len(docs[1].edges) = Len(AddedEdges)
C6_Witness ==
  /\ Serialized
  /\ Len(AddedNodes) = 0
  /\ Len(AddedEdges) = 3
  /\ Len(docs[1].nodes) = 2
  /\ Len(docs[1].edges) = 2

\* ------------------------------------------------------------ determinism
\* C7: every document serialize_graph(create_graph()) produces is the same
\* document, whatever the clock reads when create_graph is called: no value
\* in it comes from a defaulted timestamp.
C7_Deterministic ==
  \A i, j \in 1..Len(docs) : docs[i] = docs[j]
C7_Witness ==
  Len(docs) = 2 /\ runAt[1] # runAt[2] /\ Len(docs[2].nodes) = 20

\* ------------------------------------------------- the minimal projection
\* to_minimal_dict has returned for the instance in ent.
Projected ==
  minimal # NotCalled

\* C8: for every entity type and valid instance the keys of to_minimal_dict()
\* are exactly the type's MINIMAL_FIELDS, each once; a minimal field that is
\* None is present with a null value.
C8_MinimalKeySet ==
  Projected =>
    /\ Keys(minimal.items) = TypeNamed(ent.cls).MINIMAL_FIELDS
    /\ Len(minimal.items) = Cardinality(TypeNamed(ent.cls).MINIMAL_FIELDS)
    /\ \A n \in TypeNamed(ent.cls).MINIMAL_FIELDS :
         Get(ent.values, n) = None => Get(minimal.items, n) = None
C8_Witness ==
  /\ Projected
  /\ ent.cls = "CycleValidationMutation"
  /\ \E i \in 1..Len(minimal.items) : minimal.items[i].v = None

\* C9: every value to_minimal_dict() returns is a JSON scalar: a decimal is
\* its exact string, a date or timestamp its ISO-8601 string, an enum member
\* its string value, and a value that is already a scalar is unchanged; this
\* holds for the model_dump types as for the model_dump_json ones.
C9_SerializationSafe ==
  Projected =>
    \A i \in 1..Len(minimal.items) :
      LET out == minimal.items[i].v
          v == Get(ent.values, minimal.items[i].k)
      IN /\ out.t \in {"none", "str", "int", "bool"}
         /\ v.t \in {"none", "str", "int", "bool"} => out = v
         /\ v.t = "enum" => out = Str(v.value)
         /\ v = Decimal(FALSE, 999, 2) => out = Str("9.99")
         /\ v = Decimal(TRUE, 1995, 2) => out = Str("-19.95")
         /\ v = Decimal(FALSE, 99, 0) => out = Str("99")
         /\ v = Date(2025, 6, 1) => out = Str("2025-06-01")
         /\ v = Date(2017, 2, 15) => out = Str("2017-02-15")
         /\ v = Datetime(2025, 6, 2, 16, 9, 52, 0) => out = Str("2025-06-02T16:09:52")
         /\ v = Datetime(2025, 2, 26, 17, 6, 39, 670150) => out = Str("2025-02-26T17:06:39.670150")
C9_Witness ==
  /\ Projected
  /\ ent.cls = "FeeRate"
  /\ Get(minimal.items, "per_item_amount") = Str("-19.95")
  /\ Get(minimal.items, "effective_date") = Str("2017-02-15")
  /\ Get(minimal.items, "apply_type").t = "str"

\* ------------------------------------------------- rendering of "others"
\* C10: in the serialized document every decimal, date and timestamp inside
\* a node's "others" mapping has the text that the minimal projection's
\* conversion gives the same value.
C10_SameConversion ==
  (pc = "idle" /\ docs # <<>>) =>
    \A i \in 1..Len(G._node) :
      LET others == Get(G._node[i].v, "others").items
          written == Get(docs[Len(docs)].nodes[i], "others").items
      IN \A j \in 1..Len(others) :
           others[j].v.t \in {"decimal", "date", "datetime"} =>
             written[j].v = JsonValue(others[j].v)

\* ------------------------------------------------------- node attributes
\* create_node_data has returned for the instance in ent.
Wrapped ==
  node # NotCalled
NodeMinimal ==
  Get(node.items, "minimal").items
NodeOthers ==
  Get(node.items, "others").items

\* C11: in every node create_node_data produces, the keys of "minimal" and
\* of "others" are disjoint, together they are exactly the fields of the
\* wrapped entity, and "others" holds every field outside the minimal names,
\* each once, with the value the entity has.
C11_MinimalOthersPartition ==
  Wrapped =>
    /\ Keys(NodeMinimal) \cap Keys(NodeOthers) = {}
    /\ Keys(NodeMinimal) \cup Keys(NodeOthers) = FieldNames(TypeNamed(ent.cls))
    /\ Keys(NodeOthers) = FieldNames(TypeNamed(ent.cls)) \ TypeNamed(ent.cls).MINIMAL_FIELDS
    /\ Len(NodeMinimal) + Len(NodeOthers) = Len(ent.values)
    /\ \A i \in 1..Len(NodeOthers) : NodeOthers[i].v = Get(ent.values, NodeOthers[i].k)
C11_Witness ==
  /\ Wrapped
  /\ ent.cls = "Settlement"
  /\ Len(NodeMinimal) > 0
  /\ Len(NodeOthers) > 0

\* ------------------------------------------- edges to undeclared nodes
\* Identifiers that some add_edge call named before any add_node call did.
UndeclaredEndpoints ==
  {x \in Ids : \E j \in 1..Len(oplog) :
     /\ oplog[j].op = "add_edge"
     /\ x \in {oplog[j].u, oplog[j].v}
     /\ \A i \in 1..(j - 1) : ~(oplog[i].op = "add_node" /\ oplog[i].n = x)}
\* Identifiers no add_node call ever named.
NeverDeclared ==
  {x \in Ids : \A i \in 1..Len(oplog) : ~(oplog[i].op = "add_node" /\ oplog[i].n = x)}
\* The document has an edge whose endpoint is absent from its nodes list.
DanglingReference ==
  \E i \in 1..Len(DocEdges) : \E x \in {DocEdges[i][1], DocEdges[i][2]} : x \notin Range(DocNodeIds)

\* C12 as stated: after an edge was added whose source or target had not been
\* added as a node, either the document has a dangling edge reference or the
\* insertion raised an error.
C12_DanglingOrError ==
  (Serialized /\ UndeclaredEndpoints # {}) => (DanglingReference \/ pc = "raised")
\* C12 amended: adding an edge to an undeclared identifier raises no error
\* and leaves no dangling reference: the identifier becomes a node, and the
\* document lists it in nodes, as an entry holding only its id as long as no
\* add_node call names it.
C12_ImplicitNode ==
  Serialized =>
    /\ ~DanglingReference
    /\ UndeclaredEndpoints \subseteq Range(DocNodeIds)
    /\ \A i \in 1..Len(DocNodeIds) :
         DocNodeIds[i] \in NeverDeclared => docs[1].nodes[i] = << [k |-> "id", v |-> Str(DocNodeIds[i])] >>
C12_Witness ==
  /\ Serialized
  /\ "n2" \in UndeclaredEndpoints \cap NeverDeclared
  /\ "n1" \notin UndeclaredEndpoints
  /\ DocEdges = << <<"n1", "n2">> >>

\* ------------------------------------------------------------ the script
\* main went through its except clause.
Failed ==
  \E i \in 1..Len(stdout) : stdout[i].kind = "error"
Exited ==
  pc = "exited"

\* C13: the process exits with status 0 when graph construction and
\* serialization succeed and with status 1 when an exception occurs in
\* either, also when the module is run as a script.
C13_ExitStatus ==
  Exited => status = (IF Failed THEN 1 ELSE 0)

DeclOf(n) ==
  LET T == TypeNamed(args.cls)
  IN T.fields[CHOOSE i \in 1..Len(T.fields) : T.fields[i].n = n]
RequiredNames ==
  {n \in FieldNames(TypeNamed(args.cls)) : DeclOf(n).dflt = Required}
\* v is of the declared type of f (None only where the field is Optional)
\* and within its length, bounds, precision and closed set of values.
WithinConstraints(f, v) ==
  IF v = None THEN f.nullable
  ELSE /\ v.t = (IF f.k = "literal" THEN "str" ELSE f.k)
       /\ (f.k = "str" /\ "max_length" \in DOMAIN f.c) => Len(v.s) <= f.c.max_length
       /\ (f.k = "int" /\ "gt" \in DOMAIN f.c) => v.i > f.c.gt
       /\ (f.k = "int" /\ "ge" \in DOMAIN f.c) => v.i >= f.c.ge
       /\ (f.k = "decimal" /\ "max_digits" \in DOMAIN f.c) =>
            LET written == Len(IntStr(v.coeff))
                whole == IF written > v.places THEN written - v.places ELSE 0
            IN /\ v.places <= f.c.decimal_places
               /\ whole + v.places <= f.c.max_digits
               /\ whole <= f.c.max_digits - f.c.decimal_places
       /\ f.k = "literal" => v.s \in f.c.vals
       /\ f.k = "enum" => v.cls = f.c.cls /\ v.value \in f.c.vals

\* C15: for every entity type, a constructor call that omits a required
\* field fails with a validation error naming it and yields no instance; a
\* call that gives every required field and only values within their
\* declared constraints yields an instance holding those values.
C15_ConstructionValidates ==
  args # None =>
    /\ (RequiredNames \ DOMAIN args.kwargs # {}) =>
         /\ ~ent.ok
         /\ "values" \notin DOMAIN ent
         /\ RequiredNames \ DOMAIN args.kwargs \subseteq ent.errors
    /\ (/\ RequiredNames \subseteq DOMAIN args.kwargs
        /\ \A n \in DOMAIN args.kwargs : WithinConstraints(DeclOf(n), args.kwargs[n])) =>
         /\ ent.ok
         /\ \A n \in DOMAIN args.kwargs : Get(ent.values, n) = args.kwargs[n]
C15_Witness ==
  /\ args # None
  /\ args.cls = "FeeRate"
  /\ RequiredNames \ DOMAIN args.kwargs = {"currency"}
  /\ ~ent.ok

\* ------------------------------------------------- assigned instances
\* C16: whenever to_minimal_dict has returned a mapping, every field of the
\* instance it was called on satisfies its declared constraints, also after
\* attribute assignment on the constructed instance.
C16_ProjectionOnlyFromValid ==
  Projected =>
    \A i \in 1..Len(ent.values) : WithinConstraints(DeclOf(ent.values[i].k), ent.values[i].v)

\* C17: no step changes the uuid or the created_timestamp an instance had
\* at construction.
C17_IdentityImmutable ==
  [][\A n \in {"uuid", "created_timestamp"} \cap FieldNames(TypeNamed(ent.cls)) :
       Get(ent'.values, n) = Get(ent.values, n)]_vars

\* -------------------------------------------------------------- round trip
\* C18: for every entity type and every valid instance, parsing the
\* instance's full JSON gives an instance equal to it field for field,
\* binary payloads, enum members and defaulted timestamps included.
C18_RoundTrip ==
  parsed # NotCalled => (parsed.ok /\ parsed.values = ent.values)

LinkageIdentifier(n) ==
  \/ n \in {"id", "uuid"}
  \/ Len(n) >= 5 /\ SubSeq(n, Len(n) - 4, Len(n)) = "_uuid"

\* C20: for every entity type MINIMAL_FIELDS has fewer than eight names, none
\* of which is id, uuid or a name ending in _uuid, so that no key of a minimal
\* projection is a linkage identifier.
C20_MinimalFieldsNoIdentifiers ==
  /\ \A T \in EntityTypes :
       /\ Cardinality(T.MINIMAL_FIELDS) < 8
       /\ \A n \in T.MINIMAL_FIELDS : ~LinkageIdentifier(n)
  /\ Projected =>
       /\ Len(minimal.items) < 8
       /\ \A i \in 1..Len(minimal.items) : ~LinkageIdentifier(minimal.items[i].k)
C20_Witness ==
  /\ Projected
  /\ ent.cls = "JobAssassinationContract"
  /\ Keys(minimal.items) = {"job_identifier", "killed", "created_timestamp"}
  /\ \E n \in FieldNames(TypeNamed(ent.cls)) : LinkageIdentifier(n)
  /\ \E T \in EntityTypes : Cardinality(T.MINIMAL_FIELDS) = 7

\* -------------------------------------------- failures inside create_graph
\* C21: what an entity constructor of create_pydantic_objects raises leaves
\* create_graph as that same error: the call ends raised with the error of
\* the constructor call it came from, no graph and no dict of objects is
\* handed out (what the caller held before is untouched), and nothing is
\* built or serialized afterwards; a call that goes on has all 20 objects.
C21_FailurePropagates ==
  [][/\ (pc = "idle" /\ pc' = "raised") =>
          /\ exc' # None
          /\ exc'.at \in 1..Len(SampleArgs)
          /\ exc'.e \in Faults \cup {ValidationError}
          /\ G' = G /\ data' = data /\ docs' = docs
     /\ (pc = "idle" /\ pc' # "idle" /\ pc' # "raised") =>
          /\ pc' = "add_nodes"
          /\ exc' = None
          /\ Len(data') = Len(SampleArgs)
          /\ \A i \in 1..Len(data') : data'[i].v.ok
     /\ pc = "raised" => (pc' \in {"raised", "return 1"} /\ G' = G /\ docs' = docs)]_vars
C21_Witness ==
  /\ pc = "raised"
  /\ Len(runAt) = 2
  /\ SampleArgs[exc.at].k = "invoice_info"
  /\ exc.e.cls = "MemoryError"
  /\ Len(G._node) = 20
  /\ Len(docs) = 1

C23_NoSharedState ==
  /\ (Returned /\ docs # <<>>) =>
       /\ serialize_graph(G) = docs[1]
       /\ NodeSet = {NodeDecls[i].id : i \in 1..Len(NodeDecls)}
  /\ \A i \in 1..Len(docs) : docs[i] = docs[1]
C23_Witness ==
  /\ Returned
  /\ Len(docs) = 1
  /\ held # None
  /\ HasKey(held._node, "caller_node")
  /\ Get(Get(held._node, "fee_rate_1"), "minimal") = Dict(<<>>)
  /\ serialize_graph(held) # docs[1]
  /\ Len(G._node) = 20

\* ------------------------------------------- nodes first, then the edges
\* C24: in create_graph every add_node call precedes every add_edge call; at
\* the moment an edge is inserted both its endpoints are nodes carrying
\* table, minimal and others, and the insertion creates no node.
C24_NodesBeforeEdges ==
  [][(Len(oplog') = Len(oplog) + 1 /\ oplog'[Len(oplog')].op = "add_edge") =>
       LET e == oplog'[Len(oplog')]
       IN /\ \A i \in 1..Len(oplog') : oplog'[i].op = "add_node" =>
               \A j \in 1..Len(oplog') : oplog'[j].op = "add_edge" => i < j
          /\ \A x \in {e.u, e.v} :
               /\ HasKey(G._node, x)
               /\ Keys(Get(G._node, x)) = {"table", "minimal", "others"}
          /\ G'._node = G._node
          /\ Len(AddedNodes) = Len(NodeDecls)]_vars
C24_Witness ==
  /\ Returned
  /\ Len(AddedEdges) = Len(EdgeDecls)
  /\ Len(AddedNodes) = 20
  /\ oplog[20].op = "add_node" /\ oplog[21].op = "add_edge"
  /\ \A n \in NodeSet : Keys(Get(G._node, n)) = {"table", "minimal", "others"}

\* ---------------------------------------------- edges refer to listed nodes
\* C25: after any sequence of add_node and add_edge calls, every source and
\* every target of the document's edges list is the id of an entry of its
\* nodes list; the entry of an identifier that only edges have named has an
\* id and none of table, minimal and others, the entry of one that add_node
\* has named has all four.
C25_EdgesReferToNodes ==
  Serialized =>
    /\ \A i \in 1..Len(docs[1].edges) : \A key \in {"source", "target"} :
         \E m \in 1..Len(docs[1].nodes) :
           Get(docs[1].nodes[m], "id") = Get(docs[1].edges[i], key)
    /\ \A m \in 1..Len(docs[1].nodes) :
         Keys(docs[1].nodes[m]) =
           IF Get(docs[1].nodes[m], "id").s \in NeverDeclared
           THEN {"id"}
           ELSE {"id", "table", "minimal", "others"}
C25_Witness ==
  /\ Serialized
  /\ AddedNodes = <<"n1">>
  /\ AddedEdges = <<<<"n1", "n2">>, <<"n3", "n1">>>>
  /\ Len(docs[1].nodes) = 3
  /\ Keys(docs[1].nodes[2]) = {"id"}

\* --------------------------------------- edge order of the sample document
\* The pairs of the edges list of the i-th document, in document order.
EdgesOfDoc(i) ==
  [j \in 1..Len(docs[i].edges) |->
     <<Get(docs[i].edges[j], "source").s, Get(docs[i].edges[j], "target").s>>]
\* C26: for the sample graph the edges list of the document is, entry by
\* entry, the sequence of the edge declarations of create_graph, which is the
\* sequence of its edge insertions.
C26_SampleEdgeOrder ==
  /\ \A i \in 1..Len(docs) : EdgesOfDoc(i) = EdgeDecls
  /\ (pc = "idle" /\ docs # <<>>) => EdgesOfDoc(Len(docs)) = AddedEdges
C26_Witness ==
  /\ pc = "idle"
  /\ Len(docs) = 1
  /\ Len(EdgesOfDoc(1)) = 27
  /\ EdgesOfDoc(1)[1] = <<"billing_entity_merchant", "invoice_info_1">>
  /\ EdgesOfDoc(1)[16] = <<"fee_summary_3", "settlement_3">>
  /\ EdgesOfDoc(1)[27] = <<"settlement_4", "billing_entity_us_support">>

\* ------------------------------------- the sample data against the edges
\* The entity a node of the sample graph was made from, and one attribute of
\* it.
EntityOf(n) ==
  Get(data, NodeDecls[CHOOSE i \in 1..Len(NodeDecls) : NodeDecls[i].id = n].obj)
Attr(n, field) ==
  Get(EntityOf(n).values, field)

\* C27: the lineage edges of the sample graph agree with the foreign keys of
\* the sample data: along every edge fee rate -> fee summary the summary's
\* fee_rate_uuid is the rate's uuid, along the edge billing entity -> invoice
\* the invoice's billing_entity_uuid is the merchant entity's uuid, and every
\* fee summary's invoice_info_uuid is the invoice's uuid.
C27_EdgesAgreeWithKeys ==
  Returned =>
    /\ \A e \in EdgesBetween("fee_rate", "fee_summary") :
         Attr(e[2], "fee_rate_uuid") = Attr(e[1], "uuid")
    /\ \A e \in EdgesBetween("billing_entity", "invoice_info") :
         /\ Attr(e[1], "entity_type") = EnumMember("EntityType", "MERCHANT")
         /\ Attr(e[2], "billing_entity_uuid") = Attr(e[1], "uuid")
    /\ \A f \in NodesOf("fee_summary") : \A v \in NodesOf("invoice_info") :
         Attr(f, "invoice_info_uuid") = Attr(v, "uuid")
C27_Witness ==
  /\ Returned
  /\ <<"fee_rate_5", "fee_summary_5">> \in EdgesBetween("fee_rate", "fee_summary")
  /\ Attr("fee_summary_5", "fee_rate_uuid") = Str("KG9ABT30FRKVX39VRV82CBDKJF")
  /\ Attr("invoice_info_1", "billing_entity_uuid") = Str("JW8H2B9BT6B11R2HHXY3HYQCN6")
  /\ Cardinality({Attr(f, "fee_rate_uuid") : f \in NodesOf("fee_summary")}) = 6
  /\ Cardinality(NodesOf("invoice_info")) = 1

\* A decimal amount in thousandths (no amount has more than three places).
Thousandths(d) ==
  (IF d.neg THEN -1 ELSE 1) * d.coeff * Pow10(3 - d.places)
\* The sum of total_fee_amount over a set of fee summary nodes.
RECURSIVE TotalFees(_)
TotalFees(S) ==
  IF S = {} THEN 0
  ELSE LET f == CHOOSE x \in S : TRUE
       IN Thousandths(Attr(f, "total_fee_amount")) + TotalFees(S \ {f})

\* C28: the amounts of the sample data agree with the edges: the
\* total_amount of every settlement is the sum of total_fee_amount over the
\* fee summaries with an edge into it (9.99, 59.99, 99 and
\* 59.85 - 19.95 + 49.95 = 89.85), and the invoice's total_amount, 258.83,
\* is the sum of the six fee summaries' total_fee_amount.
C28_AmountsAgreeWithEdges ==
  Returned =>
    /\ \A n \in NodesOf("settlement") :
         Thousandths(Attr(n, "total_amount")) =
           TotalFees({e[1] : e \in {x \in InEdges(n) : TableOf(x[1]) = "fee_summary"}})
    /\ \A v \in NodesOf("invoice_info") :
         /\ Thousandths(Attr(v, "total_amount")) = TotalFees(NodesOf("fee_summary"))
         /\ Thousandths(Attr(v, "total_amount")) = 258830
    /\ [i \in 1..4 |-> Thousandths(Attr(<<"settlement_1", "settlement_2", "settlement_3", "settlement_4">>[i],
                                         "total_amount"))]
         = <<9990, 59990, 99000, 89850>>
C28_Witness ==
  /\ Returned
  /\ Cardinality(InEdges("settlement_4")) = 3
  /\ Attr("fee_summary_5", "total_fee_amount") = Decimal(TRUE, 1995, 2)
  /\ Attr("settlement_3", "total_amount") = Decimal(FALSE, 99, 0)
  /\ Attr("settlement_4", "total_amount") = Decimal(FALSE, 8985, 2)
  /\ Cardinality(NodesOf("fee_summary")) = 6

\* ------------------------------------------ sources, sinks, reachability
\* C29: in the sample graph the merchant billing entity is the only node
\* without incoming edges, the two downstream billing entities are the only
\* nodes without outgoing edges, and each of the 20 nodes is the merchant
\* billing entity or reachable from it.
C29_SingleSourceTwoSinks ==
  Returned =>
    /\ {n \in NodeSet : InEdges(n) = {}} = {"billing_entity_merchant"}
    /\ {n \in NodeSet : OutEdges(n) = {}} = {"billing_entity_clover", "billing_entity_us_support"}
    /\ Cardinality(NodeSet) = 20
    /\ Reachable("billing_entity_merchant") \cup {"billing_entity_merchant"} = NodeSet
C29_Witness ==
  /\ Returned
  /\ Len(AddedEdges) = 27
  /\ Cardinality(Reachable("billing_entity_merchant")) = 19
  /\ Cardinality(InEdges("billing_entity_us_support")) = 4
  /\ Attr("billing_entity_merchant", "entity_type") = EnumMember("EntityType", "MERCHANT")

=============================================================================
